---------------------------- MODULE Spec2Model ----------------------------
(***************************************************************************)
(* MyUniversityList: the data pipeline (utils/dataParser.ts, app/page.tsx) *)
(* and the client state of SearchFilters, UniversityFinder and DataTable.  *)
(*                                                                         *)
(* Strings are sequences of one-character strings, so that toLowerCase,    *)
(* includes and the e-mail pattern are computed character by character.    *)
(* A JavaScript number that may be NaN or absent is a record               *)
(* [kind, n] with kind in {"num", "nan", "undef"}.                         *)
(***************************************************************************)
EXTENDS Integers, Sequences, FiniteSets, TLC

VARIABLES
    rawData,               \* the parsed JSON document handed to parseUniversityData
    lastIndex,             \* EMAIL_REGEX.lastIndex (the pattern carries the g flag)
    results,               \* what the calls of parseUniversityData returned, in order
    objects,               \* the record objects of the page, by reference
    universities,          \* UniversityFinder props.universities (the collection)
    searchTerm,            \* SearchFilters.searchTerm (the input's text)
    debouncedSearchTerm,   \* useDebounce.debouncedValue
    timers,                \* pending setTimeout handlers of useDebounce
    handler,               \* the timer id the cleanup of useDebounce's effect clears
    selectedCountry,       \* SearchFilters.selectedCountry
    rankingRange,          \* SearchFilters.rankingRange
    acceptanceRateRange,   \* SearchFilters.acceptanceRateRange
    showAdvancedFilters,   \* SearchFilters.showAdvancedFilters
    filteredUniversities,  \* UniversityFinder.filteredUniversities
    finderSearchTerm,      \* UniversityFinder.searchTerm
    activeTab,             \* UniversityFinder.activeTab
    sortConfig,            \* DataTable.sortConfig
    currentPage,           \* DataTable.currentPage
    focusedCell,           \* DataTable.focusedCell: <<>> for null, else <<row, col>>
    visibleColumns,        \* DataTable.visibleColumns
    isCompactView,         \* DataTable.isCompactView
    interacted,            \* history: has the user done anything yet
    superseded,            \* history: a typed term was replaced while its timer was pending
    args,                  \* the arguments of the last call of a function on its own
    returned               \* what that call returned

vars == <<rawData, lastIndex, results, objects, universities, searchTerm,
          debouncedSearchTerm, timers, handler, selectedCountry, rankingRange,
          acceptanceRateRange, showAdvancedFilters, filteredUniversities,
          finderSearchTerm, activeTab, sortConfig, currentPage, focusedCell,
          visibleColumns, isCompactView, interacted, superseded, args, returned>>

parseVars == <<rawData, lastIndex, results>>

callVars == <<args, returned>>

tableVars == <<focusedCell, visibleColumns, isCompactView>>

uiVars == <<objects, universities, searchTerm, debouncedSearchTerm, timers, handler,
            selectedCountry, rankingRange, acceptanceRateRange,
            showAdvancedFilters, filteredUniversities, finderSearchTerm,
            activeTab, sortConfig, currentPage, tableVars, interacted, superseded>>

---------------------------------------------------------------------------
(* Bounds of the model. *)

\* longest raw list handed to parseUniversityData in SpecParse
MaxRecs == 2

\* calls of parseUniversityData in one server session in SpecParse
MaxCalls == 2

---------------------------------------------------------------------------
(* JavaScript values and strings. *)

Num(n) == [kind |-> "num", n |-> n]

NaN == [kind |-> "nan", n |-> 0]

Undefined == [kind |-> "undef", n |-> 0]

IsNum(v) == v.kind = "num"

LowerLetters == <<"a","b","c","d","e","f","g","h","i","j","k","l","m",
                  "n","o","p","q","r","s","t","u","v","w","x","y","z">>

UpperLetters == <<"A","B","C","D","E","F","G","H","I","J","K","L","M",
                  "N","O","P","Q","R","S","T","U","V","W","X","Y","Z">>

DigitChars == <<"0","1","2","3","4","5","6","7","8","9">>

Range(f) == {f[i] : i \in DOMAIN f}

UpperSet == {"A","B","C","D","E","F","G","H","I","J","K","L","M",
             "N","O","P","Q","R","S","T","U","V","W","X","Y","Z"}

LowerSet == {"a","b","c","d","e","f","g","h","i","j","k","l","m",
             "n","o","p","q","r","s","t","u","v","w","x","y","z"}

DigitSet == {"0","1","2","3","4","5","6","7","8","9"}

\* the lower-case letter of each upper-case letter
LowerOf ==
    "A" :> "a" @@ "B" :> "b" @@ "C" :> "c" @@ "D" :> "d" @@ "E" :> "e" @@
    "F" :> "f" @@ "G" :> "g" @@ "H" :> "h" @@ "I" :> "i" @@ "J" :> "j" @@
    "K" :> "k" @@ "L" :> "l" @@ "M" :> "m" @@ "N" :> "n" @@ "O" :> "o" @@
    "P" :> "p" @@ "Q" :> "q" @@ "R" :> "r" @@ "S" :> "s" @@ "T" :> "t" @@
    "U" :> "u" @@ "V" :> "v" @@ "W" :> "w" @@ "X" :> "x" @@ "Y" :> "y" @@
    "Z" :> "z"

ToLowerChar(c) == IF c \in UpperSet THEN LowerOf[c] ELSE c

\* String.prototype.toLowerCase
ToLowerCase(s) == [i \in 1..Len(s) |-> ToLowerChar(s[i])]

\* String.prototype.includes
Includes(hay, needle) ==
    \E i \in 0..(Len(hay) - Len(needle)) :
        \A k \in 1..Len(needle) : hay[i + k] = needle[k]

RECURSIVE NatToString(_)
NatToString(n) ==
    IF n < 10 THEN <<DigitChars[n + 1]>>
    ELSE NatToString(n \div 10) \o <<DigitChars[(n % 10) + 1]>>

\* `${value}` of a number that may be NaN or undefined
NumberToString(v) ==
    CASE v.kind = "nan" -> <<"N","a","N">>
      [] v.kind = "undef" -> <<"u","n","d","e","f","i","n","e","d">>
      [] v.n < 0 -> <<"-">> \o NatToString(0 - v.n)
      [] OTHER -> NatToString(v.n)

---------------------------------------------------------------------------
(* EMAIL_REGEX = /[\w.-]+@[\w.-]+\.[a-zA-Z]{2,}/g and RegExp.prototype.test *)

IsAlpha(c) == c \in LowerSet \/ c \in UpperSet

IsWordChar(c) == IsAlpha(c) \/ c \in DigitSet \/ c = "_"

\* the class [\w.-]
IsAddrChar(c) == IsWordChar(c) \/ c = "." \/ c = "-"

\* last position of the longest run of [\w.-] that starts at i (i-1: no run)
AddrRunEnd(s, i) ==
    CHOOSE j \in (i - 1)..Len(s) :
        /\ \A k \in i..j : IsAddrChar(s[k])
        /\ (j = Len(s) \/ ~IsAddrChar(s[j + 1]))

\* last position of the longest run of [a-zA-Z] that starts at i
AlphaRunEnd(s, i) ==
    CHOOSE j \in (i - 1)..Len(s) :
        /\ \A k \in i..j : IsAlpha(s[k])
        /\ (j = Len(s) \/ ~IsAlpha(s[j + 1]))

\* positions d of a "." that can close the domain of a match whose "@" is at
\* position at: one domain character before it, two letters after it
DomainDots(s, at) ==
    {d \in (at + 2)..AddrRunEnd(s, at + 1) :
        /\ s[d] = "."
        /\ d + 2 <= Len(s)
        /\ IsAlpha(s[d + 1])
        /\ IsAlpha(s[d + 2])}

Max(S) == CHOOSE x \in S : \A y \in S : y <= x

Min(S) == CHOOSE x \in S : \A y \in S : x <= y

\* Position of the last character of the match of EMAIL_REGEX that starts at
\* position i, 0 when none starts there.  The quantifiers are greedy: the
\* local part is the whole run up to the "@", the domain backtracks to the
\* last "." that two letters follow, the TLD takes every letter after it.
EmailMatchEnd(s, i) ==
    LET a == AddrRunEnd(s, i)
    IN  IF a < i \/ a + 1 > Len(s) THEN 0
        ELSE IF s[a + 1] # "@" THEN 0
        ELSE IF DomainDots(s, a + 1) = {} THEN 0
        ELSE AlphaRunEnd(s, Max(DomainDots(s, a + 1)) + 1)

\* EMAIL_REGEX.test(str) with EMAIL_REGEX.lastIndex = li: the search starts
\* at index li; a match leaves lastIndex at its end, a failure resets it to 0
EmailRegexTest(s, li) ==
    LET starts == {i \in (li + 1)..Len(s) : EmailMatchEnd(s, i) # 0}
    IN  IF li > Len(s) \/ starts = {}
        THEN [matched |-> FALSE, lastIndex |-> 0]
        ELSE [matched |-> TRUE, lastIndex |-> EmailMatchEnd(s, Min(starts))]

\* isEmail(str)
isEmail(str, li) == EmailRegexTest(str, li)

---------------------------------------------------------------------------
(* parseUniversityData *)

\* the object literal of the map callback; isEmail has run with lastIndex li
ParsedUniversity(university, li) ==
    [rank |-> university.rank,
     universityName |-> university.universityName,
     cityCountry |-> university.cityCountry,
     ranking |-> [system |-> university.ranking.system,
                  value |-> university.ranking.value,
                  display |-> university.ranking.system \o <<" ", "#">>
                              \o NumberToString(university.ranking.value)],
     programs |-> university.programs,
     acceptanceRate |-> [value |-> university.acceptanceRate.value,
                         estimated |-> university.acceptanceRate.estimated,
                         display |-> NumberToString(university.acceptanceRate.value)
                                     \o <<"%">>
                                     \o (IF university.acceptanceRate.estimated
                                         THEN <<" ","(","e","s","t",".",")">>
                                         ELSE <<>>)],
     acceptanceCriteria |-> university.acceptanceCriteria,
     scholarships |-> university.scholarships,
     contact |-> [email |-> university.contact,
                  isEmail |-> isEmail(university.contact, li).matched]]

\* rawData.universities.map(...): the records in order, each isEmail call
\* starting from the lastIndex the previous one left
RECURSIVE MapUniversities(_, _)
MapUniversities(list, li) ==
    IF list = <<>> THEN [out |-> <<>>, lastIndex |-> li]
    ELSE LET rest == MapUniversities(Tail(list),
                                     isEmail(Head(list).contact, li).lastIndex)
         IN  [out |-> <<ParsedUniversity(Head(list), li)>> \o rest.out,
              lastIndex |-> rest.lastIndex]

\* uni.universityName && uni.rank > 0, with rank >= 0 in place of rank > 0
KeepUniversityNonNegative(uni) ==
    /\ uni.universityName # <<>>
    /\ IsNum(uni.rank)
    /\ uni.rank.n >= 0

\* the predicate of .filter(uni => uni.universityName && uni.rank > 0)
KeepUniversity(uni) ==
    /\ uni.universityName # <<>>
    /\ IsNum(uni.rank)
    /\ uni.rank.n > 0

\* parseUniversityData(rawData) called with EMAIL_REGEX.lastIndex = li
parseUniversityData(raw, li) ==
    LET mapped == MapUniversities(raw.universities, li)
    IN  [universities |-> SelectSeq(mapped.out, KeepUniversity),
         metadata |-> [generatedOn |-> raw.generatedOn,
                       rankingNote |-> raw.rankingNote],
         lastIndex |-> mapped.lastIndex]

---------------------------------------------------------------------------
(* Raw records the specifications draw their inputs from. *)

sMIT == <<"M","I","T">>

sOx == <<"O","x">>

sZed == <<"Z","e","d">>

sFar == <<"F","a","r">>

sQS == <<"Q","S">>

sBostonUS == <<"B",","," ","U","S">>

sTorontoCA == <<"T",","," ","C","A">>

sNowhere == <<"N","o","w","h","e","r","e">>

\* one whole address
sMail == <<"a","@","b",".","c","o">>

\* an address among other text
sMailInText == <<"x"," ","a","@","b",".","c","o">>

\* two addresses
sTwoMails == <<"a","@","b",".","c","o"," ","c","@","d",".","i","o">>

sTel == <<"t","e","l">>

RawUniversity(rank, name, cityCountry, rankingValue, programs, rate, estimated, criteria, scholarships, contact) ==
    [rank |-> rank,
     universityName |-> name,
     cityCountry |-> cityCountry,
     ranking |-> [system |-> sQS, value |-> rankingValue],
     programs |-> programs,
     acceptanceRate |-> [value |-> rate, estimated |-> estimated],
     acceptanceCriteria |-> criteria,
     scholarships |-> scholarships,
     contact |-> contact]

RawPool ==
    {RawUniversity(Num(1), sMIT, sBostonUS, Num(1), <<<<"c","s">>>>, Num(4), FALSE,
                   <<"g","p","a">>, <<>>, sMail),
     RawUniversity(Num(2), sOx, sTorontoCA, Num(3), <<<<"a","i">>>>, Num(17), TRUE,
                   <<"g","r","e">>, <<>>, sMailInText),
     RawUniversity(Num(0), sZed, sBostonUS, Num(9), <<>>, Num(50), FALSE,
                   <<>>, <<>>, sTel),
     RawUniversity(Num(3), <<>>, sTorontoCA, Num(7), <<>>, Num(30), FALSE,
                   <<>>, <<>>, sMail),
     RawUniversity(Num(150), sFar, sNowhere, Num(150), <<>>, NaN, FALSE,
                   <<>>, <<>>, sTwoMails),
     RawUniversity(NaN, sZed, sTorontoCA, Undefined, <<>>, Undefined, FALSE,
                   <<>>, <<>>, <<>>)}

RECURSIVE SeqsUpTo(_, _)
SeqsUpTo(S, n) ==
    IF n = 0 THEN {<<>>}
    ELSE LET shorter == SeqsUpTo(S, n - 1)
         IN  shorter \cup {Append(q, x) : q \in shorter, x \in S}

RawDocument(list) ==
    [generatedOn |-> "2025-01-01", rankingNote |-> "QS 2025", universities |-> list]

---------------------------------------------------------------------------
(* The client state while no page is shown (SpecParse). *)

\* Object.keys(COLUMN_CONFIG), in the order of the literal
ColumnKeys ==
    <<"rank", "universityName", "cityCountry", "ranking", "programs",
      "programStart", "appDeadline", "acceptanceRate", "acceptanceCriteria",
      "scholarships", "contact", "url", "imageUrl", "citations">>

\* COLUMN_CONFIG[key].priority
ColumnPriority ==
    [rank |-> 1, universityName |-> 1, cityCountry |-> 2, ranking |-> 3,
     programs |-> 2, programStart |-> 4, appDeadline |-> 2, acceptanceRate |-> 3,
     acceptanceCriteria |-> 4, scholarships |-> 3, contact |-> 4, url |-> 4,
     imageUrl |-> 5, citations |-> 5]

\* new Set(Object.keys(COLUMN_CONFIG))
AllColumns == {ColumnKeys[i] : i \in DOMAIN ColumnKeys}

\* the state a mounted DataTable starts with, besides sortConfig and
\* currentPage
InitialTable ==
    /\ focusedCell = <<>>
    /\ visibleColumns = AllColumns
    /\ isCompactView = FALSE

\* a DataTable mounted anew: its state is the initial one
MountTable ==
    /\ focusedCell' = <<>>
    /\ visibleColumns' = AllColumns
    /\ isCompactView' = FALSE

NoClient ==
    /\ objects = <<>>
    /\ universities = <<>>
    /\ searchTerm = <<>>
    /\ debouncedSearchTerm = <<>>
    /\ timers = {}
    /\ handler = 0
    /\ selectedCountry = <<>>
    /\ rankingRange = <<1, 100>>
    /\ acceptanceRateRange = <<0, 100>>
    /\ showAdvancedFilters = FALSE
    /\ filteredUniversities = <<>>
    /\ finderSearchTerm = <<>>
    /\ activeTab = "table"
    /\ sortConfig = [column |-> "rank", direction |-> "asc"]
    /\ currentPage = 1
    /\ InitialTable
    /\ interacted = FALSE
    /\ superseded = FALSE

\* no function has been called on its own
NoCall ==
    /\ args = <<>>
    /\ returned = <<>>

---------------------------------------------------------------------------
(* SpecParse: one server session that normalizes the same raw document     *)
(* several times (getUniversitiesData runs once per request, and the       *)
(* module-level EMAIL_REGEX lives as long as the server process).          *)

InitParse ==
    /\ rawData \in {RawDocument(l) : l \in SeqsUpTo(RawPool, MaxRecs)}
    /\ lastIndex = 0
    /\ results = <<>>
    /\ NoClient
    /\ NoCall

\* getUniversitiesData: parseUniversityData(rawData)
ParseCall ==
    /\ Len(results) < MaxCalls
    /\ LET r == parseUniversityData(rawData, lastIndex)
       IN  /\ results' = Append(results, [universities |-> r.universities,
                                          metadata |-> r.metadata])
           /\ lastIndex' = r.lastIndex
    /\ UNCHANGED <<rawData, uiVars, callVars>>

NextParse == ParseCall

SpecParse == InitParse /\ [][NextParse]_vars

---------------------------------------------------------------------------
(* Claims about parseUniversityData. *)

\* C1: calling parseUniversityData twice in one session on the same raw
\* input returns identical records, isEmail flags included, and a record's
\* flag depends neither on earlier calls nor on the records before it (it
\* is the flag a fresh pattern gives for that contact string).
C1_RepeatedCallsAgree ==
    /\ \A i, j \in DOMAIN results : results[i].universities = results[j].universities
    /\ \A i \in DOMAIN results :
         \A k \in DOMAIN results[i].universities :
            LET u == results[i].universities[k]
            IN  u.contact.isEmail = isEmail(u.contact.email, 0).matched

\* q is p with some elements left out, order kept
RECURSIVE IsSubsequence(_, _)
IsSubsequence(q, p) ==
    IF q = <<>> THEN TRUE
    ELSE IF p = <<>> THEN FALSE
    ELSE IF Head(q) = Head(p) THEN IsSubsequence(Tail(q), Tail(p))
    ELSE IsSubsequence(q, Tail(p))

\* the raw fields a normalized record was made from
RawKey(u) == <<u.rank, u.universityName, u.cityCountry, u.contact>>

ParsedKey(u) == <<u.rank, u.universityName, u.cityCountry, u.contact.email>>

KeysOf(list, Key(_)) == [i \in 1..Len(list) |-> Key(list[i])]

\* C2: the list parseUniversityData returns is no longer than its input,
\* every record in it has a non-empty universityName and rank > 0, and the
\* kept records appear in their input order.
C2_KeptRecordsValidInOrder ==
    \A i \in DOMAIN results :
        LET out == results[i].universities
        IN  /\ Len(out) <= Len(rawData.universities)
            /\ \A k \in DOMAIN out :
                  /\ out[k].universityName # <<>>
                  /\ out[k].rank.kind = "num"
                  /\ out[k].rank.n > 0
            /\ IsSubsequence(KeysOf(out, ParsedKey),
                             KeysOf(rawData.universities, RawKey))

\* a call that dropped one record and kept another
C2_Witness ==
    /\ Len(results) >= 1
    /\ Len(rawData.universities) = 2
    /\ Len(results[1].universities) = 1

\* the whole string is one address local@domain.tld
IsWholeEmailAddress(s) ==
    \E at \in 2..Len(s), dot \in 4..Len(s) :
        /\ s[at] = "@"
        /\ s[dot] = "."
        /\ at + 1 < dot
        /\ dot + 2 <= Len(s)
        /\ \A k \in 1..(at - 1) : IsAddrChar(s[k])
        /\ \A k \in (at + 1)..(dot - 1) : IsAddrChar(s[k])
        /\ \A k \in (dot + 1)..Len(s) : IsAlpha(s[k])

\* C5: contact.isEmail is true if and only if the entire contact string is
\* one address of the shape local@domain.tld.
C5_IsEmailIffWholeAddress ==
    \A i \in DOMAIN results :
        \A k \in DOMAIN results[i].universities :
            LET u == results[i].universities[k]
            IN  u.contact.isEmail <=> IsWholeEmailAddress(u.contact.email)

---------------------------------------------------------------------------
(* SpecLoad: getUniversitiesData on a data file that may be missing, may   *)
(* not be JSON, or may hold records that lack an object.                    *)

\* fs.readFile rejects: the file is missing
FileMissing == [error |-> "ENOENT"]

\* JSON.parse throws: the file is not JSON
FileMalformed == [error |-> "SyntaxError"]

\* the file was read and parsed as JSON
IsDocument(file) == file \notin {FileMissing, FileMalformed}

\* a raw record without its ranking object
RawNoRanking ==
    [RawUniversity(Num(4), sFar, sTorontoCA, Num(0), <<>>, Num(20), FALSE,
                   <<>>, <<>>, sTel) EXCEPT !.ranking = Undefined]

\* a raw record without its acceptanceRate object
RawNoAcceptanceRate ==
    [RawUniversity(Num(5), sOx, sBostonUS, Num(5), <<>>, Num(0), FALSE,
                   <<>>, <<>>, sMail) EXCEPT !.acceptanceRate = Undefined]

LoadPool == RawPool \cup {RawNoRanking, RawNoAcceptanceRate}

\* the map callback throws a TypeError on the record: university.ranking.system
\* or university.acceptanceRate.value reads a property of undefined
MapCallbackThrows(university) ==
    \/ university.ranking = Undefined
    \/ university.acceptanceRate = Undefined

\* position of the first record the map callback throws on, 0 when none
FirstThrow(list) ==
    LET throwing == {i \in DOMAIN list : MapCallbackThrows(list[i])}
    IN  IF throwing = {} THEN 0 ELSE Min(throwing)

\* the value of the catch block
EmptyResult == [universities |-> <<>>,
                metadata |-> [generatedOn |-> "", rankingNote |-> ""]]

\* what the try block does with the file: it returns a value, or an
\* exception leaves it; lastIndex is EMAIL_REGEX.lastIndex afterwards (the
\* records before a throwing one have had their isEmail call)
TryBlock(file, li) ==
    IF ~IsDocument(file)
    THEN [thrown |-> TRUE, value |-> EmptyResult, lastIndex |-> li]
    ELSE IF FirstThrow(file.universities) # 0
    THEN [thrown |-> TRUE, value |-> EmptyResult,
          lastIndex |-> MapUniversities(
                            SubSeq(file.universities, 1,
                                   FirstThrow(file.universities) - 1), li).lastIndex]
    ELSE LET r == parseUniversityData(file, li)
         IN  [thrown |-> FALSE,
              value |-> [universities |-> r.universities, metadata |-> r.metadata],
              lastIndex |-> r.lastIndex]

\* getUniversitiesData without its catch: the exception leaves the function
getUniversitiesDataNoCatch(file, li) ==
    LET try == TryBlock(file, li)
    IN  [raised |-> try.thrown, universities |-> try.value.universities,
         metadata |-> try.value.metadata, lastIndex |-> try.lastIndex]

\* getUniversitiesData: try { readFile, JSON.parse, parseUniversityData }
\* catch { return the empty result }
getUniversitiesData(file, li) ==
    LET try == TryBlock(file, li)
    IN  [raised |-> FALSE, universities |-> try.value.universities,
         metadata |-> try.value.metadata, lastIndex |-> try.lastIndex]

\* the data file with other metadata
OtherMetadata(doc) == [doc EXCEPT !.generatedOn = "2024-06-30", !.rankingNote = ""]

InitLoad ==
    /\ rawData \in {FileMissing, FileMalformed}
                   \cup {RawDocument(l) : l \in SeqsUpTo(LoadPool, MaxRecs)}
                   \cup {OtherMetadata(RawDocument(l)) : l \in SeqsUpTo(LoadPool, 1)}
    /\ lastIndex = 0
    /\ results = <<>>
    /\ NoClient
    /\ NoCall

\* a request of the page: HomePage awaits getUniversitiesData()
LoadCall ==
    /\ Len(results) < MaxCalls
    /\ LET r == getUniversitiesData(rawData, lastIndex)
       IN  /\ results' = Append(results, [raised |-> r.raised,
                                          universities |-> r.universities,
                                          metadata |-> r.metadata])
           /\ lastIndex' = r.lastIndex
    /\ UNCHANGED <<rawData, uiVars, callVars>>

NextLoad == LoadCall

SpecLoad == InitLoad /\ [][NextLoad]_vars

\* the raw record is complete and passes the drop rule
ValidRaw(u) ==
    /\ u.ranking # Undefined
    /\ u.acceptanceRate # Undefined
    /\ u.universityName # <<>>
    /\ u.rank.kind = "num"
    /\ u.rank.n > 0

\* C12: a raw record for which deriving a field throws does not make the
\* normalization raise and does not affect the other records: every valid
\* record of the list is still in the normalized collection, in order.
C12_ThrowingRecordIsolated ==
    \A i \in DOMAIN results :
        IsDocument(rawData) =>
            /\ ~results[i].raised
            /\ IsSubsequence(KeysOf(SelectSeq(rawData.universities, ValidRaw), RawKey),
                             KeysOf(results[i].universities, ParsedKey))

\* C19: a missing or malformed data file raises nothing past
\* getUniversitiesData and yields the empty collection with empty metadata;
\* a successful load passes generatedOn and rankingNote through unchanged.
C19_LoadFailureYieldsEmpty ==
    \A i \in DOMAIN results :
        /\ ~results[i].raised
        /\ ~IsDocument(rawData) =>
              /\ results[i].universities = <<>>
              /\ results[i].metadata = [generatedOn |-> "", rankingNote |-> ""]
        /\ (IsDocument(rawData) /\ \A k \in DOMAIN rawData.universities :
                                      /\ rawData.universities[k].ranking # Undefined
                                      /\ rawData.universities[k].acceptanceRate # Undefined) =>
              /\ results[i].metadata.generatedOn = rawData.generatedOn
              /\ results[i].metadata.rankingNote = rawData.rankingNote

\* a request answered while the data file is missing
C19_Witness ==
    /\ rawData = FileMissing
    /\ Len(results) >= 1

---------------------------------------------------------------------------
(* The dataset of the client specification. *)

\* generated records of the dataset of Spec, besides the four written out
SmallFillers == 2

\* generated records of the dataset of SpecPages: with the three written-out
\* records of rank 1 to 3 they fill more than one page of ITEMS_PER_PAGE
PageFillers == 23

sEth == <<"E","t","h">>

sZurichCH == <<"Z",","," ","C","H">>

sUS == <<"U","S">>

sCA == <<"C","A">>

sTermMit == <<"m","i","t">>

sTermCa == <<"c","a">>

\* record i of the generated ones: rank, ranking and rate i
Filler(i) ==
    RawUniversity(Num(i), <<"U">> \o NatToString(i),
                  IF i % 2 = 0 THEN sBostonUS ELSE sTorontoCA,
                  Num(i), <<>>, Num(i), FALSE, <<>>,
                  IF i = 4 THEN <<[name |-> <<"M","i","t">>, amount |-> <<"5","k">>]>>
                  ELSE <<>>,
                  <<>>)

\* a rate of 0, a missing ranking value, a NaN rate, a rank above 100
DatasetRecords(fillers) ==
    <<RawUniversity(Num(1), sMIT, sBostonUS, Num(1), <<<<"c","s">>>>, Num(4), FALSE,
                    <<"g","p","a">>, <<>>, sMail),
      RawUniversity(Num(2), sOx, sTorontoCA, Num(3), <<<<"a","i">>>>, Num(0), TRUE,
                    <<"g","r","e">>, <<>>, sMailInText),
      RawUniversity(Num(3), sEth, sZurichCH, Undefined, <<>>, NaN, FALSE,
                    <<>>, <<>>, sTel)>>
    \o [i \in 1..fillers |-> Filler(i + 3)]
    \o <<RawUniversity(Num(150), sFar, sNowhere, Num(150), <<>>, Num(60), FALSE,
                       <<>>, <<>>, sTwoMails)>>

Dataset(fillers) == RawDocument(DatasetRecords(fillers))

\* The normalized records the page is rendered with: they become the
\* objects of the client.  The client's arrays (the universities prop,
\* filteredUniversities, sortedUniversities) hold references to them; a
\* reference is the record's position in objects.
LoadedUniversities(fillers) == parseUniversityData(Dataset(fillers), 0).universities

\* the record a reference points to
Obj(ref) == objects[ref]

---------------------------------------------------------------------------
(* SearchFilters: derived values and the filter effect. *)

\* ITEMS_PER_PAGE
ITEMS_PER_PAGE == 25

\* the delay SearchFilters passes to useDebounce, in milliseconds
DebounceDelay == 300

\* the initial rankingRange, useState([1, 100])
InitialRankingRange == <<1, 100>>

\* the initial acceptanceRateRange, useState([0, 100])
InitialAcceptanceRateRange == <<0, 100>>

\* extractAcceptanceRates
extractAcceptanceRates(unis) ==
    LET rates == SelectSeq([i \in DOMAIN unis |-> Obj(unis[i]).acceptanceRate.value],
                           IsNum)
    IN  [i \in DOMAIN rates |-> rates[i].n]

\* Infinity, as a number beyond every number of the model
Infinity == 1000000

\* Math.max(...list); Math.max() of no argument is -Infinity
RECURSIVE MathMax(_)
MathMax(list) ==
    IF list = <<>> THEN 0 - Infinity
    ELSE IF Len(list) = 1 THEN list[1]
    ELSE LET rest == MathMax(Tail(list))
         IN  IF list[1] >= rest THEN list[1] ELSE rest

\* Math.min(...list); Math.min() of no argument is Infinity
RECURSIVE MathMin(_)
MathMin(list) ==
    IF list = <<>> THEN Infinity
    ELSE IF Len(list) = 1 THEN list[1]
    ELSE LET rest == MathMin(Tail(list))
         IN  IF list[1] <= rest THEN list[1] ELSE rest

\* universities.map(uni => uni.rank).filter(rank => !isNaN(rank))
Ranks(unis) ==
    LET ranks == SelectSeq([i \in DOMAIN unis |-> Obj(unis[i]).rank], IsNum)
    IN  [i \in DOMAIN ranks |-> ranks[i].n]

\* minRank
minRank(unis) == MathMin(Ranks(unis))

\* maxRank
maxRank(unis) == MathMax(Ranks(unis))

minAcceptanceRate(unis) ==
    LET rates == extractAcceptanceRates(unis)
    IN  IF Len(rates) > 0 THEN MathMin(rates) ELSE 0

maxAcceptanceRate(unis) ==
    LET rates == extractAcceptanceRates(unis)
    IN  IF Len(rates) > 0 THEN MathMax(rates) ELSE 100

\* String.prototype.trim
RECURSIVE Trim(_)
Trim(s) ==
    IF s = <<>> THEN s
    ELSE IF Head(s) = " " THEN Trim(Tail(s))
    ELSE IF s[Len(s)] = " " THEN Trim(SubSeq(s, 1, Len(s) - 1))
    ELSE s

\* parts[parts.length - 1] of cityCountry.split(','): the text after the
\* last comma
LastCommaPart(s) ==
    LET commas == {i \in DOMAIN s : s[i] = ","}
    IN  IF commas = {} THEN s ELSE SubSeq(s, Max(commas) + 1, Len(s))

\* the Set that extractCountries fills (before Array.from(...).sort())
CountrySet(unis) ==
    LET cityCountry(i) == Obj(unis[i]).cityCountry
    IN  {Trim(LastCommaPart(cityCountry(i))) :
            i \in {j \in DOMAIN unis :
                     /\ cityCountry(j) # <<>>
                     /\ \E k \in DOMAIN cityCountry(j) : cityCountry(j)[k] = ","
                     /\ Trim(LastCommaPart(cityCountry(j))) # <<>>}}

\* the text search of the filter effect, searchLower being non-empty
MatchesSearch(uni, searchLower) ==
    \/ Includes(ToLowerCase(uni.universityName), searchLower)
    \/ Includes(ToLowerCase(uni.cityCountry), searchLower)
    \/ \E p \in DOMAIN uni.programs :
          Includes(ToLowerCase(uni.programs[p]), searchLower)
    \/ Includes(ToLowerCase(uni.acceptanceCriteria), searchLower)
    \/ Includes(ToLowerCase(uni.ranking.display), searchLower)
    \/ \E k \in DOMAIN uni.scholarships :
          \/ Includes(ToLowerCase(uni.scholarships[k].name), searchLower)
          \/ Includes(ToLowerCase(uni.scholarships[k].amount), searchLower)

\* rank >= rankingRange[0] && rank <= rankingRange[1], upper bound exclusive
InRankingRangeExclusive(uni, range) ==
    /\ IsNum(uni.rank)
    /\ uni.rank.n >= range[1]
    /\ uni.rank.n < range[2]

\* rank >= rankingRange[0] && rank <= rankingRange[1]
InRankingRange(uni, range) ==
    /\ IsNum(uni.rank)
    /\ uni.rank.n >= range[1]
    /\ uni.rank.n <= range[2]

\* rate >= acceptanceRateRange[0] && rate <= acceptanceRateRange[1]
\* (false for NaN and undefined)
InAcceptanceRateRange(uni, range) ==
    /\ IsNum(uni.acceptanceRate.value)
    /\ uni.acceptanceRate.value.n >= range[1]
    /\ uni.acceptanceRate.value.n <= range[2]

\* the filter effect of SearchFilters: the list it passes to onFilterChange
FilterEffect(unis, term, country, rRange, aRange, advanced) ==
    LET searched ==
            IF term # <<>>
            THEN LET searchLower == ToLowerCase(term)
                     Hit(ref) == MatchesSearch(Obj(ref), searchLower)
                 IN  SelectSeq(unis, Hit)
            ELSE unis
        ofCountry ==
            IF country # <<>>
            THEN LET In(ref) == Includes(Obj(ref).cityCountry, country)
                 IN  SelectSeq(searched, In)
            ELSE searched
        ranked ==
            LET In(ref) == InRankingRange(Obj(ref), rRange)
            IN  SelectSeq(ofCountry, In)
    IN  IF advanced
        THEN LET In(ref) == InAcceptanceRateRange(Obj(ref), aRange)
             IN  SelectSeq(ranked, In)
        ELSE ranked

---------------------------------------------------------------------------
(* DataTable: sortedUniversities and pagination. *)

\* code-unit order of the characters the model's strings use
CharOrder == <<" ", "#", "%", "(", ")", ",", "-", ".">> \o DigitChars \o <<"@">>
             \o UpperLetters \o <<"[", "]", "_">> \o LowerLetters

CharCode(c) == CHOOSE i \in DOMAIN CharOrder : CharOrder[i] = c

\* aStr < bStr
RECURSIVE StringLess(_, _)
StringLess(a, b) ==
    IF b = <<>> THEN FALSE
    ELSE IF a = <<>> THEN TRUE
    ELSE IF Head(a) = Head(b) THEN StringLess(Tail(a), Tail(b))
    ELSE CharCode(Head(a)) < CharCode(Head(b))

sObjectObject == <<"[","o","b","j","e","c","t"," ","O","b","j","e","c","t","]">>

\* Array.prototype.join(',') of strings
RECURSIVE JoinComma(_)
JoinComma(list) ==
    IF list = <<>> THEN <<>>
    ELSE IF Len(list) = 1 THEN Head(list)
    ELSE Head(list) \o <<",">> \o JoinComma(Tail(list))

\* the columns of COLUMN_CONFIG whose fields the model's records carry
Columns == <<"rank", "universityName", "cityCountry", "ranking", "programs",
             "acceptanceRate", "acceptanceCriteria", "scholarships", "contact">>

\* aStr of the object-based and scalar columns: none of the objects of a
\* ParsedUniversity has a text, date or contact property, so an object is
\* String(aValue): an array joins its elements, an object is [object Object]
SortString(uni, column) ==
    CASE column = "universityName" -> ToLowerCase(uni.universityName)
      [] column = "cityCountry" -> ToLowerCase(uni.cityCountry)
      [] column = "acceptanceCriteria" -> ToLowerCase(uni.acceptanceCriteria)
      [] column = "programs" -> ToLowerCase(JoinComma(uni.programs))
      [] column = "scholarships" ->
            ToLowerCase(JoinComma([k \in DOMAIN uni.scholarships |-> sObjectObject]))
      [] column = "contact" -> ToLowerCase(sObjectObject)
      [] OTHER -> <<>>

\* value || 999
OrDefault999(v) == IF IsNum(v) /\ v.n # 0 THEN v.n ELSE 999

\* the comparator with the rank branch returning aNum - bNum in either
\* direction
CompareUniversitiesRankAscOnly(a, b, config) ==
    CASE config.column = "rank" ->
            LET aNum == IF IsNum(a.rank) THEN a.rank.n ELSE 0
                bNum == IF IsNum(b.rank) THEN b.rank.n ELSE 0
            IN  aNum - bNum
      [] config.column = "acceptanceRate" ->
            LET aRate == OrDefault999(a.acceptanceRate.value)
                bRate == OrDefault999(b.acceptanceRate.value)
            IN  IF config.direction = "asc" THEN aRate - bRate ELSE bRate - aRate
      [] config.column = "ranking" ->
            LET aRank == OrDefault999(a.ranking.value)
                bRank == OrDefault999(b.ranking.value)
            IN  IF config.direction = "asc" THEN aRank - bRank ELSE bRank - aRank
      [] OTHER ->
            LET aStr == SortString(a, config.column)
                bStr == SortString(b, config.column)
            IN  IF StringLess(aStr, bStr)
                THEN (IF config.direction = "asc" THEN -1 ELSE 1)
                ELSE IF StringLess(bStr, aStr)
                THEN (IF config.direction = "asc" THEN 1 ELSE -1)
                ELSE 0

\* the comparator of sortedUniversities: negative, zero or positive
CompareUniversities(a, b, config) ==
    CASE config.column = "rank" ->
            LET aNum == IF IsNum(a.rank) THEN a.rank.n ELSE 0
                bNum == IF IsNum(b.rank) THEN b.rank.n ELSE 0
            IN  IF config.direction = "asc" THEN aNum - bNum ELSE bNum - aNum
      [] config.column = "acceptanceRate" ->
            LET aRate == OrDefault999(a.acceptanceRate.value)
                bRate == OrDefault999(b.acceptanceRate.value)
            IN  IF config.direction = "asc" THEN aRate - bRate ELSE bRate - aRate
      [] config.column = "ranking" ->
            LET aRank == OrDefault999(a.ranking.value)
                bRank == OrDefault999(b.ranking.value)
            IN  IF config.direction = "asc" THEN aRank - bRank ELSE bRank - aRank
      [] OTHER ->
            LET aStr == SortString(a, config.column)
                bStr == SortString(b, config.column)
            IN  IF StringLess(aStr, bStr)
                THEN (IF config.direction = "asc" THEN -1 ELSE 1)
                ELSE IF StringLess(bStr, aStr)
                THEN (IF config.direction = "asc" THEN 1 ELSE -1)
                ELSE 0

\* x put into a sorted list in front of the elements that compare equal to
\* it: a sort that is not stable
RECURSIVE InsertSortedBeforeEqual(_, _, _)
InsertSortedBeforeEqual(x, sorted, config) ==
    IF sorted = <<>> THEN <<x>>
    ELSE IF CompareUniversities(Obj(Head(sorted)), Obj(x), config) >= 0
    THEN <<x>> \o sorted
    ELSE <<Head(sorted)>> \o InsertSortedBeforeEqual(x, Tail(sorted), config)

\* x put into a sorted list behind every element that does not compare
\* greater than it
RECURSIVE InsertSorted(_, _, _)
InsertSorted(x, sorted, config) ==
    IF sorted = <<>> THEN <<x>>
    ELSE IF CompareUniversities(Obj(Head(sorted)), Obj(x), config) > 0
    THEN <<x>> \o sorted
    ELSE <<Head(sorted)>> \o InsertSorted(x, Tail(sorted), config)

\* Array.prototype.sort with the comparator: stable
RECURSIVE ArraySort(_, _)
ArraySort(list, config) ==
    IF list = <<>> THEN <<>>
    ELSE InsertSorted(list[Len(list)],
                      ArraySort(SubSeq(list, 1, Len(list) - 1), config), config)

\* sortedUniversities
sortedUniversities(unis, config) ==
    IF config.direction = "none" THEN unis ELSE ArraySort(unis, config)

\* universities.sort(...) without the copy: the prop array itself is sorted
UniversitiesSortedInPlace(unis, config) == sortedUniversities(unis, config)

\* the array the universities prop refers to once sortedUniversities has
\* been computed: [...universities] is a copy, the prop array is untouched
UniversitiesAfterSort(unis, config) == unis

\* Math.ceil(sortedUniversities.length / ITEMS_PER_PAGE)
totalPages(unis) == (Len(unis) + ITEMS_PER_PAGE - 1) \div ITEMS_PER_PAGE

\* paginatedUniversities without the upper end of the slice
paginatedUniversitiesToEnd(sorted, page) ==
    SubSeq(sorted, (page - 1) * ITEMS_PER_PAGE + 1, Len(sorted))

\* paginatedUniversities
paginatedUniversities(sorted, page) ==
    LET startIndex == (page - 1) * ITEMS_PER_PAGE
    IN  SubSeq(sorted, startIndex + 1, Min({startIndex + ITEMS_PER_PAGE, Len(sorted)}))

\* the page numbers of the page-number buttons
PageButtons(total, page) ==
    {IF total <= 7 THEN i + 1
     ELSE IF page <= 4 THEN i + 1
     ELSE IF page >= total - 3 THEN total - 6 + i
     ELSE page - 3 + i : i \in 0..(Min({total, 7}) - 1)}

---------------------------------------------------------------------------
(* The inputs of the client specifications. *)

\* what the user types into the search input
SearchInputs == {<<>>, sTermMit}

\* values a thumb of the ranking slider is dragged to (between min and max)
RankStops(unis) == {minRank(unis), maxRank(unis)}

\* the ranges of the quick-filter buttons the model's user clicks
QuickFilters == {<<0, 10>>, <<30, 60>>}

\* the headers the model's user clicks
ClickColumns == {"rank", "ranking", "acceptanceRate"}

---------------------------------------------------------------------------
(* useDebounce: the timer of the pending setDebouncedValue. *)

\* milliseconds one Tick lets pass
TickMs == 150

\* clearTimeout(handler)
ClearTimeout(pending, id) == {t \in pending : t.id # id}

\* the id setTimeout returns: one that no pending timer has
NewTimerId(pending) == Min({i \in 0..Cardinality(pending) : \A t \in pending : t.id # i})

\* setTimeout(() => setDebouncedValue(value), delay)
SetTimeout(pending, value, delay) ==
    pending \cup {[id |-> NewTimerId(pending), value |-> value, remaining |-> delay]}

\* the effect without its cleanup: the earlier timer stays pending
UseDebounceEffectNoCleanup(pending, id, value) ==
    [timers |-> SetTimeout(pending, value, DebounceDelay),
     handler |-> NewTimerId(pending)]

\* the effect with its cleanup but without the setTimeout
UseDebounceEffectNoTimer(pending, id, value) ==
    [timers |-> ClearTimeout(pending, id), handler |-> id]

\* the effect of useDebounce when value has changed: the cleanup of the
\* previous run clears its handler, then a new timer is set
UseDebounceEffect(pending, id, value) ==
    [timers |-> SetTimeout(ClearTimeout(pending, id), value, DebounceDelay),
     handler |-> NewTimerId(ClearTimeout(pending, id))]

---------------------------------------------------------------------------
(* The client: SearchFilters, UniversityFinder, DataTable. *)

InitialSortConfig == [column |-> "rank", direction |-> "asc"]

\* UniversityFinder renders DataTable
TableShown(tab, filtered) == tab = "table" /\ Len(filtered) > 0

\* the chips of filterChips
filterChips ==
    (IF debouncedSearchTerm # <<>> THEN {"search"} ELSE {})
    \cup (IF selectedCountry # <<>> THEN {"country"} ELSE {})
    \cup (IF rankingRange # <<minRank(universities), maxRank(universities)>>
          THEN {"ranking"} ELSE {})
    \cup (IF showAdvancedFilters
             /\ acceptanceRateRange # <<minAcceptanceRate(universities),
                                        maxAcceptanceRate(universities)>>
          THEN {"acceptance"} ELSE {})

\* the effect of DataTable on a new universities prop without its body: the
\* page stays
ResetPageEffectSkipped(page) == page

\* the effect of DataTable on a new universities prop: setCurrentPage(1)
ResetPageEffect(page) == 1

\* a three-state toggle: a click on the descending column clears the sort
handleSortThreeState(prevConfig, column) ==
    [column |-> column,
     direction |-> IF prevConfig.column # column THEN "asc"
                   ELSE IF prevConfig.direction = "asc" THEN "desc"
                   ELSE IF prevConfig.direction = "desc" THEN "none"
                   ELSE "asc"]

\* the updater handleSort passes to setSortConfig
handleSort(prevConfig, column) ==
    [column |-> column,
     direction |-> IF prevConfig.column = column /\ prevConfig.direction = "asc"
                   THEN "desc" ELSE "asc"]

\* onFilterChange(filtered, searchTerm): the text of the input in place of
\* the debounced term
FilterChangeTermFromInput(input, debounced) == input

\* the term the filter effect hands to onFilterChange together with the
\* list: onFilterChange(filtered, debouncedSearchTerm)
FilterChangeTerm(input, debounced) == debounced

\* The render that follows a change of SearchFilters' state, with its
\* effects: useDebounce's effect when the input's text changed; the filter
\* effect (its dependencies changed: filterRuns), whose onFilterChange sets
\* filteredUniversities and searchTerm of UniversityFinder; DataTable's
\* reset of currentPage on the new universities prop.  A DataTable that was
\* not rendered before, or is not rendered now, has its initial state.
Rerender(term, debounced, pending, country, rRange, aRange, advanced, filterRuns) ==
    /\ searchTerm' = term
    /\ debouncedSearchTerm' = debounced
    /\ IF term # searchTerm
       THEN LET effect == UseDebounceEffect(pending, handler, term)
            IN  /\ timers' = effect.timers
                /\ handler' = effect.handler
                /\ superseded' = (superseded
                                   \/ \E t \in pending \ effect.timers : t.value # <<>>)
       ELSE /\ timers' = pending
            /\ UNCHANGED <<handler, superseded>>
    /\ selectedCountry' = country
    /\ rankingRange' = rRange
    /\ acceptanceRateRange' = aRange
    /\ showAdvancedFilters' = advanced
    /\ IF filterRuns
       THEN LET filtered == FilterEffect(universities, debounced, country,
                                         rRange, aRange, advanced)
                shown == TableShown(activeTab, filtered)
                stays == shown /\ TableShown(activeTab, filteredUniversities)
                config == IF stays THEN sortConfig ELSE InitialSortConfig
            IN  /\ filteredUniversities' =
                      IF shown THEN UniversitiesAfterSort(filtered, config)
                      ELSE filtered
                /\ finderSearchTerm' = FilterChangeTerm(term, debounced)
                /\ sortConfig' = config
                /\ currentPage' = IF stays THEN ResetPageEffect(currentPage) ELSE 1
                /\ IF stays THEN UNCHANGED tableVars ELSE MountTable
       ELSE UNCHANGED <<filteredUniversities, finderSearchTerm, sortConfig,
                        currentPage, tableVars>>
    /\ UNCHANGED <<objects, universities, activeTab, parseVars, callVars>>

\* The page after its first render and mount effects, for the records the
\* server has loaded; the variables of the server's parse are idle in the
\* browser.  UniversityFinder's filteredUniversities
\* starts as the universities prop itself, and the first render of DataTable
\* sorts it; then useDebounce sets its first timer and the filter effect
\* delivers the first filtered list.
ClientInit(loaded) ==
    /\ rawData = <<>>
    /\ lastIndex = 0
    /\ results = <<>>
    /\ objects = loaded
    /\ universities = UniversitiesAfterSort([i \in DOMAIN objects |-> i],
                                            InitialSortConfig)
    /\ searchTerm = <<>>
    /\ debouncedSearchTerm = <<>>
    /\ timers = SetTimeout({}, <<>>, DebounceDelay)
    /\ handler = NewTimerId({})
    /\ selectedCountry = <<>>
    /\ rankingRange = InitialRankingRange
    /\ acceptanceRateRange = InitialAcceptanceRateRange
    /\ showAdvancedFilters = FALSE
    /\ filteredUniversities =
          UniversitiesAfterSort(
              FilterEffect(universities, <<>>, <<>>, InitialRankingRange,
                           InitialAcceptanceRateRange, FALSE),
              InitialSortConfig)
    /\ finderSearchTerm = <<>>
    /\ activeTab = "table"
    /\ sortConfig = InitialSortConfig
    /\ currentPage = 1
    /\ InitialTable
    /\ interacted = FALSE
    /\ superseded = FALSE
    /\ NoCall

\* the records of Spec
LoadedSmall == LoadedUniversities(SmallFillers)

\* the records of SpecPages
LoadedPages == LoadedUniversities(PageFillers)

Init == ClientInit(LoadedSmall)

InitPages == ClientInit(LoadedPages)

\* onChange of the search input (and its clear button, value '')
TypeSearch ==
    \E value \in SearchInputs :
        /\ value # searchTerm
        /\ interacted' = TRUE
        /\ Rerender(value, debouncedSearchTerm, timers, selectedCountry, rankingRange,
                    acceptanceRateRange, showAdvancedFilters, FALSE)

\* time passes; a timer that is due runs before more time passes
Tick ==
    /\ timers # {}
    /\ \A t \in timers : t.remaining > 0
    /\ timers' = {[t EXCEPT !.remaining = Max({0, t.remaining - TickMs})] : t \in timers}
    /\ UNCHANGED <<objects, universities, searchTerm, debouncedSearchTerm, handler,
                   selectedCountry, rankingRange, acceptanceRateRange,
                   showAdvancedFilters, filteredUniversities, finderSearchTerm,
                   activeTab, sortConfig, currentPage, tableVars, interacted,
                   superseded, parseVars, callVars>>

\* a due timer runs setDebouncedValue(value); a changed value re-renders
\* SearchFilters and runs the filter effect
TimerFires ==
    \E t \in timers :
        /\ t.remaining = 0
        /\ interacted' = interacted
        /\ Rerender(searchTerm, t.value, timers \ {t}, selectedCountry, rankingRange,
                    acceptanceRateRange, showAdvancedFilters,
                    t.value # debouncedSearchTerm)

\* onChange of the country dropdown
SelectCountry ==
    \E country \in CountrySet(universities) \cup {<<>>} :
        /\ country # selectedCountry
        /\ interacted' = TRUE
        /\ Rerender(searchTerm, debouncedSearchTerm, timers, country, rankingRange,
                    acceptanceRateRange, showAdvancedFilters, TRUE)

\* a thumb of the ranking slider dragged to value (handlePointerMove)
DragRanking ==
    \E thumb \in {"min", "max"}, value \in RankStops(universities) :
        /\ interacted' = TRUE
        /\ Rerender(searchTerm, debouncedSearchTerm, timers, selectedCountry,
                    IF thumb = "min"
                    THEN <<Min({value, rankingRange[2]}), rankingRange[2]>>
                    ELSE <<rankingRange[1], Max({value, rankingRange[1]})>>,
                    acceptanceRateRange, showAdvancedFilters, TRUE)

\* the Advanced/Basic Filters button
ToggleAdvanced ==
    /\ interacted' = TRUE
    /\ Rerender(searchTerm, debouncedSearchTerm, timers, selectedCountry, rankingRange,
                acceptanceRateRange, ~showAdvancedFilters, TRUE)

\* one of the quick-filter buttons
QuickFilter ==
    \E range \in QuickFilters :
        /\ showAdvancedFilters
        /\ interacted' = TRUE
        /\ Rerender(searchTerm, debouncedSearchTerm, timers, selectedCountry,
                    rankingRange, range, showAdvancedFilters, TRUE)

\* clearFilters with the ranges set to the initial state of the component
clearFiltersToInitialState(unis) ==
    [searchTerm |-> <<>>,
     selectedCountry |-> <<>>,
     rankingRange |-> InitialRankingRange,
     acceptanceRateRange |-> InitialAcceptanceRateRange,
     showAdvancedFilters |-> FALSE]

\* the values clearFilters sets
clearFilters(unis) ==
    [searchTerm |-> <<>>,
     selectedCountry |-> <<>>,
     rankingRange |-> <<minRank(unis), maxRank(unis)>>,
     acceptanceRateRange |-> <<minAcceptanceRate(unis), maxAcceptanceRate(unis)>>,
     showAdvancedFilters |-> FALSE]

\* Clear All
ClearFilters ==
    /\ interacted' = TRUE
    /\ LET set == clearFilters(universities)
       IN  Rerender(set.searchTerm, debouncedSearchTerm, timers, set.selectedCountry,
                    set.rankingRange, set.acceptanceRateRange,
                    set.showAdvancedFilters, TRUE)

\* handleChipRemove
RemoveChip ==
    \E chip \in filterChips :
        /\ interacted' = TRUE
        /\ CASE chip = "search" ->
                  /\ searchTerm # <<>>
                  /\ Rerender(<<>>, debouncedSearchTerm, timers, selectedCountry,
                              rankingRange, acceptanceRateRange, showAdvancedFilters,
                              FALSE)
             [] chip = "country" ->
                  Rerender(searchTerm, debouncedSearchTerm, timers, <<>>, rankingRange,
                           acceptanceRateRange, showAdvancedFilters, TRUE)
             [] chip = "ranking" ->
                  Rerender(searchTerm, debouncedSearchTerm, timers, selectedCountry,
                           <<minRank(universities), maxRank(universities)>>,
                           acceptanceRateRange, showAdvancedFilters, TRUE)
             [] chip = "acceptance" ->
                  Rerender(searchTerm, debouncedSearchTerm, timers, selectedCountry,
                           rankingRange,
                           <<minAcceptanceRate(universities),
                             maxAcceptanceRate(universities)>>,
                           showAdvancedFilters, TRUE)

\* what a click inside UniversityFinder or DataTable leaves alone
FiltersFrame ==
    /\ interacted' = TRUE
    /\ UNCHANGED <<objects, universities, searchTerm, debouncedSearchTerm, timers,
                   handler, selectedCountry, rankingRange, acceptanceRateRange,
                   showAdvancedFilters, finderSearchTerm, superseded, parseVars,
                   callVars>>

\* the two tab buttons: setActiveTab; DataTable is unmounted on the
\* analytics tab and mounted anew, in its initial state, on the table tab
SetActiveTab ==
    \E tab \in {"table", "analytics"} :
        /\ tab # activeTab
        /\ activeTab' = tab
        /\ sortConfig' = InitialSortConfig
        /\ currentPage' = 1
        /\ MountTable
        /\ filteredUniversities' =
              IF TableShown(tab, filteredUniversities)
              THEN UniversitiesAfterSort(filteredUniversities, InitialSortConfig)
              ELSE filteredUniversities
        /\ FiltersFrame

\* handleSort(column), for a click on the header of column
ClickOn(column) ==
    /\ TableShown(activeTab, filteredUniversities)
    /\ sortConfig' = handleSort(sortConfig, column)
    /\ filteredUniversities' = UniversitiesAfterSort(filteredUniversities, sortConfig')
    /\ UNCHANGED <<activeTab, currentPage, tableVars>>
    /\ FiltersFrame

\* a click on a column header
ClickHeader == \E column \in ClickColumns : ClickOn(column)

\* what the pagination buttons leave alone
PageFrame ==
    /\ UNCHANGED <<filteredUniversities, activeTab, sortConfig, tableVars>>
    /\ FiltersFrame

\* the pagination bar is rendered
PaginationShown ==
    /\ TableShown(activeTab, filteredUniversities)
    /\ totalPages(sortedUniversities(filteredUniversities, sortConfig)) > 1

\* a page-number button: setCurrentPage(pageNum)
PageButton ==
    /\ PaginationShown
    /\ \E pageNum \in PageButtons(totalPages(filteredUniversities), currentPage) :
          currentPage' = pageNum
    /\ PageFrame

\* Previous: setCurrentPage(prev => Math.max(prev - 1, 1)), disabled on page 1
PreviousPage ==
    /\ PaginationShown
    /\ currentPage # 1
    /\ currentPage' = Max({currentPage - 1, 1})
    /\ PageFrame

\* Next: setCurrentPage(prev => Math.min(prev + 1, totalPages)), disabled on
\* the last page
NextPage ==
    /\ PaginationShown
    /\ currentPage # totalPages(filteredUniversities)
    /\ currentPage' = Min({currentPage + 1, totalPages(filteredUniversities)})
    /\ PageFrame

\* Spec: a session on the search and filter controls, the headers and the
\* tabs, over the small dataset (one page)
Next ==
    \/ TypeSearch
    \/ Tick
    \/ TimerFires
    \/ SelectCountry
    \/ DragRanking
    \/ ToggleAdvanced
    \/ QuickFilter
    \/ ClearFilters
    \/ RemoveChip
    \/ SetActiveTab
    \/ ClickHeader

Spec == Init /\ [][Next]_vars

\* SpecPages: a session on the table over the dataset of several pages:
\* pagination, headers, tabs, and the filters that need no typing
NextPages ==
    \/ SelectCountry
    \/ DragRanking
    \/ ClearFilters
    \/ SetActiveTab
    \/ ClickHeader
    \/ PageButton
    \/ PreviousPage
    \/ NextPage

SpecPages == InitPages /\ [][NextPages]_vars

---------------------------------------------------------------------------
(* Claims about the client. *)

\* C3: in the initial state, before any user interaction, the rank-range
\* filter spans the full rank range of the dataset, so the list delivered
\* to the table is the entire normalized collection, records of rank above
\* 100 included.
C3_InitialRangeSpansDataset ==
    ~interacted =>
        /\ rankingRange = <<minRank(universities), maxRank(universities)>>
        /\ filteredUniversities = universities

\* text contains term, letter case ignored
ContainsIgnoreCase(text, term) ==
    \E i \in 0..(Len(text) - Len(term)) :
        \A k \in 1..Len(term) : ToLowerChar(text[i + k]) = ToLowerChar(term[k])

\* the texts of a record the search looks into
SearchedTexts(uni) ==
    {uni.universityName, uni.cityCountry, uni.acceptanceCriteria, uni.ranking.display}
    \cup Range(uni.programs)
    \cup {uni.scholarships[k].name : k \in DOMAIN uni.scholarships}
    \cup {uni.scholarships[k].amount : k \in DOMAIN uni.scholarships}

\* the record satisfies every active predicate of the current criteria
SatisfiesCriteria(ref) ==
    LET uni == Obj(ref)
    IN  /\ debouncedSearchTerm # <<>> =>
              \E text \in SearchedTexts(uni) :
                  ContainsIgnoreCase(text, debouncedSearchTerm)
        /\ selectedCountry # <<>> => Includes(uni.cityCountry, selectedCountry)
        /\ uni.rank.kind = "num"
        /\ rankingRange[1] <= uni.rank.n
        /\ uni.rank.n <= rankingRange[2]
        /\ showAdvancedFilters =>
              /\ uni.acceptanceRate.value.kind = "num"
              /\ acceptanceRateRange[1] <= uni.acceptanceRate.value.n
              /\ uni.acceptanceRate.value.n <= acceptanceRateRange[2]

\* C4: the list passed to onFilterChange holds exactly the records of the
\* collection that satisfy all active predicates (search term when
\* non-empty, country when selected, inclusive rank range always, inclusive
\* acceptance-rate range only in advanced mode), in their original order.
C4_FilteredIsExactlyTheMatches ==
    filteredUniversities = SelectSeq(universities, SatisfiesCriteria)

\* every predicate is active and the list is a proper, non-empty part
C4_Witness ==
    /\ showAdvancedFilters
    /\ selectedCountry # <<>>
    /\ debouncedSearchTerm # <<>>
    /\ Len(filteredUniversities) > 0
    /\ Len(filteredUniversities) < Len(universities)

\* C6: sorted by acceptanceRate or by ranking in ascending order, the
\* records with a numeric value come in non-decreasing value (0 first), and
\* every record whose value is missing or NaN comes after all of them.
C6_AscendingNumericThenMissing ==
    (/\ TableShown(activeTab, filteredUniversities)
     /\ sortConfig.direction = "asc"
     /\ sortConfig.column \in {"acceptanceRate", "ranking"}) =>
        LET sorted == sortedUniversities(filteredUniversities, sortConfig)
            value(i) == IF sortConfig.column = "ranking"
                        THEN Obj(sorted[i]).ranking.value
                        ELSE Obj(sorted[i]).acceptanceRate.value
        IN  \A i, j \in DOMAIN sorted :
                (i < j /\ IsNum(value(j))) =>
                    (IsNum(value(i)) /\ value(i).n <= value(j).n)

\* C8: the sort direction is ascending or descending, never none; a click on
\* the sorted column flips the direction, a click on another column makes it
\* the sort column, ascending.
C8_SortDirectionToggles ==
    /\ [](sortConfig.direction \in {"asc", "desc"})
    /\ [][\A column \in ClickColumns :
             ClickOn(column) =>
                 /\ sortConfig'.column = column
                 /\ sortConfig'.direction =
                       IF sortConfig.column # column THEN "asc"
                       ELSE IF sortConfig.direction = "asc" THEN "desc"
                       ELSE "asc"]_vars

\* a column other than the initial one, clicked twice
C8_Witness ==
    sortConfig = [column |-> "acceptanceRate", direction |-> "desc"]

\* C9: the collection the coordinator holds has the records produced at
\* load, in the same order, and the filtered list given to the table keeps
\* the collection's order whatever the sort.
C9_CollectionNeverReordered ==
    /\ objects = LoadedSmall
    /\ universities = [i \in 1..Len(objects) |-> i]
    /\ \A i, j \in DOMAIN filteredUniversities :
          i < j => filteredUniversities[i] < filteredUniversities[j]

\* the table shows a filtered list in another order than the list has
C9_Witness ==
    /\ TableShown(activeTab, filteredUniversities)
    /\ selectedCountry # <<>>
    /\ sortConfig.direction = "desc"
    /\ sortedUniversities(filteredUniversities, sortConfig) # filteredUniversities

\* C10: at most one timer is pending, it carries the value of the last
\* keystroke, and the debounced term only ever becomes the value of the
\* last keystroke: a term replaced within its window reaches nothing.
C10_OnlyLastKeystrokeDebounced ==
    /\ [](/\ Cardinality(timers) <= 1
          /\ \A t \in timers : t.value = searchTerm)
    /\ [][debouncedSearchTerm' # debouncedSearchTerm =>
             /\ debouncedSearchTerm' = searchTerm
             /\ timers' = {}]_vars

\* a typed term was replaced within its window, and the input has settled
C10_Witness ==
    /\ superseded
    /\ timers = {}
    /\ debouncedSearchTerm = searchTerm

---------------------------------------------------------------------------
(* SpecLive: a session on the search input, the country dropdown, the      *)
(* advanced switch, the chips and Clear All over the small dataset, with   *)
(* the timer of useDebounce running: time passes while a timer is pending, *)
(* and a due timer runs its callback.                                      *)

\* the user changes the criteria
CriteriaChange ==
    \/ TypeSearch
    \/ SelectCountry
    \/ ToggleAdvanced
    \/ ClearFilters
    \/ RemoveChip

NextLive ==
    \/ CriteriaChange
    \/ Tick
    \/ TimerFires

SpecLive == Init /\ [][NextLive]_vars /\ WF_vars(Tick) /\ WF_vars(TimerFires)

\* the debounced term is the input's text and the list shown is the result
\* for the current criteria with that term
Settled ==
    /\ debouncedSearchTerm = searchTerm
    /\ finderSearchTerm = searchTerm
    /\ filteredUniversities = SelectSeq(universities, SatisfiesCriteria)

\* C11: if the user stops changing the criteria then, the timer of
\* useDebounce firing fairly, the debounced term eventually equals the text
\* of the search input and from then on the list shown is the result for
\* the current criteria with that term.
C11_EventuallySettled ==
    []<><<CriteriaChange>>_vars \/ <>[]Settled

\* a typed term has become the debounced term and no timer is pending
C11_Witness ==
    /\ interacted
    /\ searchTerm # <<>>
    /\ timers = {}
    /\ Settled

---------------------------------------------------------------------------
(* Claims about the table over several pages (SpecPages). *)

---------------------------------------------------------------------------
(* SpecCalls: the pure functions called on their own. The initial state    *)
(* holds the arguments of one call (args) and, for the functions of a      *)
(* collection, the collection (objects, universities); the action of the   *)
(* function puts its value into returned.                                   *)

\* the call in args has returned
Returned(fn) ==
    /\ args # <<>>
    /\ args[1] = fn
    /\ returned # <<>>

\* the call in args is pending
Pending(fn) ==
    /\ args # <<>>
    /\ args[1] = fn
    /\ returned = <<>>

(* formatDate *)

DigitValue(c) == (CHOOSE i \in DOMAIN DigitChars : DigitChars[i] = c) - 1

IsDigits(s) == \A i \in DOMAIN s : s[i] \in DigitSet

\* Number of a run of digits
RECURSIVE DigitsToNat(_)
DigitsToNat(s) ==
    IF s = <<>> THEN 0
    ELSE 10 * DigitsToNat(SubSeq(s, 1, Len(s) - 1)) + DigitValue(s[Len(s)])

IsLeapYear(y) == (y % 4 = 0 /\ y % 100 # 0) \/ y % 400 = 0

DaysInMonth(y, m) ==
    IF m = 2 THEN (IF IsLeapYear(y) THEN 29 ELSE 28)
    ELSE IF m \in {4, 6, 9, 11} THEN 30 ELSE 31

\* the time value of new Date(dateStr): the date-only form YYYY-MM-DD is
\* midnight UTC of that day, a text that is no date is the invalid date (NaN)
NewDate(dateStr) ==
    IF /\ Len(dateStr) = 10
       /\ dateStr[5] = "-"
       /\ dateStr[8] = "-"
       /\ IsDigits(SubSeq(dateStr, 1, 4) \o SubSeq(dateStr, 6, 7) \o SubSeq(dateStr, 9, 10))
    THEN LET y == DigitsToNat(SubSeq(dateStr, 1, 4))
             m == DigitsToNat(SubSeq(dateStr, 6, 7))
             d == DigitsToNat(SubSeq(dateStr, 9, 10))
         IN  IF m \in 1..12 /\ d \in 1..DaysInMonth(y, m)
             THEN [valid |-> TRUE, year |-> y, month |-> m, day |-> d]
             ELSE [valid |-> FALSE, year |-> 0, month |-> 0, day |-> 0]
    ELSE [valid |-> FALSE, year |-> 0, month |-> 0, day |-> 0]

\* the calendar day of midnight UTC in the time zone of the process: the
\* same day at or east of UTC, the day before west of UTC
LocalDay(date, west) ==
    IF ~west THEN date
    ELSE IF date.day > 1 THEN [date EXCEPT !.day = date.day - 1]
    ELSE IF date.month > 1
    THEN [date EXCEPT !.month = date.month - 1,
                      !.day = DaysInMonth(date.year, date.month - 1)]
    ELSE [date EXCEPT !.year = date.year - 1, !.month = 12, !.day = 31]

MonthNames == <<<<"J","a","n","u","a","r","y">>,
               <<"F","e","b","r","u","a","r","y">>,
               <<"M","a","r","c","h">>,
               <<"A","p","r","i","l">>,
               <<"M","a","y">>,
               <<"J","u","n","e">>,
               <<"J","u","l","y">>,
               <<"A","u","g","u","s","t">>,
               <<"S","e","p","t","e","m","b","e","r">>,
               <<"O","c","t","o","b","e","r">>,
               <<"N","o","v","e","m","b","e","r">>,
               <<"D","e","c","e","m","b","e","r">>>>

sInvalidDate == <<"I","n","v","a","l","i","d"," ","D","a","t","e">>

\* "Month D, YYYY"
LongForm(y, m, d) ==
    MonthNames[m] \o <<" ">> \o NatToString(d) \o <<",", " ">> \o NatToString(y)

\* date.toLocaleDateString('en-US', {year: 'numeric', month: 'long',
\* day: 'numeric'}): the invalid date formats as the text Invalid Date
toLocaleDateString(date, west) ==
    IF ~date.valid THEN sInvalidDate
    ELSE LET local == LocalDay(date, west)
         IN  LongForm(local.year, local.month, local.day)

\* formatDate: neither new Date nor toLocaleDateString throws on a string,
\* so the catch never runs
formatDate(dateStr, west) == toLocaleDateString(NewDate(dateStr), west)

\* appDeadline of the normalized record
AppDeadline(appDeadline, west) ==
    [date |-> appDeadline, formatted |-> formatDate(appDeadline, west)]

sJan15 == <<"2","0","2","5","-","0","1","-","1","5">>
sMar01 == <<"2","0","2","5","-","0","3","-","0","1">>
sFeb29 == <<"2","0","2","4","-","0","2","-","2","9">>
sJan01 == <<"2","0","2","5","-","0","1","-","0","1">>
sRolling == <<"R","o","l","l","i","n","g">>
sVaries == <<"V","a","r","i","e","s">>

\* deadline strings of the data file
DeadlineStrings == {sJan15, sMar01, sFeb29, sJan01, sRolling, sVaries, <<>>}

FormatDateCalls == {<<"formatDate", d, west>> : d \in DeadlineStrings, west \in BOOLEAN}

FormatDateCall ==
    /\ Pending("formatDate")
    /\ returned' = <<AppDeadline(args[2], args[3]).formatted>>
    /\ UNCHANGED <<parseVars, uiVars, args>>

\* the text is "Month D, YYYY"
IsLongForm(text) ==
    \E m \in 1..12, d \in 1..31, y \in 2023..2026 : text = LongForm(y, m, d)

\* C13: appDeadline.formatted is the long form "Month D, YYYY" when the
\* deadline string parses as a calendar date and the raw string itself,
\* unmodified, when it does not.
C13_FormattedOrRawString ==
    Returned("formatDate") =>
        IF NewDate(args[2]).valid
        THEN IsLongForm(returned[1])
        ELSE returned[1] = args[2]

(* sortedUniversities and extractCountries on a collection *)

\* Array.from(countries).sort(): the strings in code-unit order
RECURSIVE SortStrings(_)
SortStrings(S) ==
    IF S = {} THEN <<>>
    ELSE LET least == CHOOSE x \in S : \A y \in S \ {x} : StringLess(x, y)
         IN  <<least>> \o SortStrings(S \ {least})

\* the longest collection of the calls on a collection
MaxItems == 3

sMitLower == <<"m","i","t">>

\* a trailing comma after the country
sTorontoCAComma == <<"T",","," ","C","A",",">>

\* normalized records: equal and distinct keys in every column, and every
\* shape of cityCountry
ViewPool ==
    {ParsedUniversity(RawUniversity(Num(1), sMIT, sBostonUS, Num(1), <<<<"c","s">>>>,
                                    Num(4), FALSE, <<"g","p","a">>, <<>>, sMail), 0),
     ParsedUniversity(RawUniversity(Num(2), sOx, sTorontoCAComma, Num(3), <<<<"a","i">>>>,
                                    Num(17), TRUE, <<"g","r","e">>, <<>>, sTel), 0),
     ParsedUniversity(RawUniversity(Num(3), sMitLower, sBostonUS, Num(1), <<<<"c","s">>>>,
                                    Num(4), FALSE, <<"g","p","a">>, <<>>, sMail), 0),
     ParsedUniversity(RawUniversity(Num(2), sZed, sNowhere, Undefined, <<>>,
                                    NaN, FALSE, <<>>, <<>>, sTel), 0),
     ParsedUniversity(RawUniversity(Num(5), sFar, sTorontoCA, Num(7), <<<<"a","i">>>>,
                                    Num(30), FALSE, <<>>, <<>>, sMail), 0)}

Collections == SeqsUpTo(ViewPool, MaxItems)

\* the refs of a collection in its order
Refs(collection) == [i \in DOMAIN collection |-> i]

\* extractCountries
extractCountries(unis) == SortStrings(CountrySet(unis))

\* sortConfig.direction of the k-th sort of a column: a click on a header
\* sorts ascending, the next click on it descending
Directions == <<"asc", "desc">>

SortCalls == {<<"sort", column>> : column \in Range(Columns)}

\* sortedUniversities recomputed for the column, first ascending, then
\* descending
SortCall ==
    /\ args # <<>>
    /\ args[1] = "sort"
    /\ Len(returned) < Len(Directions)
    /\ returned' = Append(returned,
                          sortedUniversities(universities,
                              [column |-> args[2],
                               direction |-> Directions[Len(returned) + 1]]))
    /\ UNCHANGED <<parseVars, uiVars, args>>

ExtractCountriesCall ==
    /\ Pending("extractCountries")
    /\ returned' = <<extractCountries(universities)>>
    /\ UNCHANGED <<parseVars, uiVars, args>>

\* position of a ref in a list of refs
PositionOf(list, ref) == CHOOSE i \in DOMAIN list : list[i] = ref

IsPermutation(out, in) ==
    /\ Len(out) = Len(in)
    /\ \A i \in DOMAIN in : \E k \in DOMAIN out : out[k] = in[i]

\* the two records have equal keys under the sort configuration
EqualKeys(a, b, config) == CompareUniversities(a, b, config) = 0

\* C14: for every sort column and both directions, the sorted list holds the
\* records of the input, and records with equal keys keep the relative order
\* they had before the sort.
C14_SortIsStable ==
    Returned("sort") =>
        \A k \in DOMAIN returned :
            /\ IsPermutation(returned[k], universities)
            /\ \A i, j \in DOMAIN universities :
                  (i < j /\ EqualKeys(Obj(universities[i]), Obj(universities[j]),
                                      [column |-> args[2], direction |-> Directions[k]]))
                  => PositionOf(returned[k], universities[i])
                       < PositionOf(returned[k], universities[j])

\* both directions sorted, two different records with equal keys behind a
\* record they are not equal to
C14_Witness ==
    /\ Returned("sort")
    /\ Len(returned) = 2
    /\ Len(universities) = 3
    /\ Obj(2) # Obj(3)
    /\ EqualKeys(Obj(2), Obj(3), [column |-> args[2], direction |-> "asc"])
    /\ ~EqualKeys(Obj(1), Obj(2), [column |-> args[2], direction |-> "asc"])
    /\ returned[1] # universities

DistinctRanks ==
    \A i, j \in DOMAIN universities :
        i # j => Obj(universities[i]).rank # Obj(universities[j]).rank

Reverse(list) == [i \in DOMAIN list |-> list[Len(list) + 1 - i]]

\* C15: for a collection with pairwise distinct ranks, the order of rank
\* descending is exactly the reverse of the order of rank ascending.
C15_RankDescReversesAsc ==
    (Returned("sort") /\ args[2] = "rank" /\ Len(returned) = 2 /\ DistinctRanks)
        => returned[2] = Reverse(returned[1])

C15_Witness ==
    /\ Returned("sort")
    /\ args[2] = "rank"
    /\ Len(returned) = 2
    /\ DistinctRanks
    /\ Len(universities) = 3
    /\ returned[1] # universities
    /\ returned[2] # universities

\* cityCountry.split(',')
RECURSIVE SplitComma(_)
SplitComma(text) ==
    LET commas == {i \in DOMAIN text : text[i] = ","}
    IN  IF commas = {} THEN <<text>>
        ELSE Append(SplitComma(SubSeq(text, 1, Max(commas) - 1)),
                    SubSeq(text, Max(commas) + 1, Len(text)))

\* the trimmed segments of a cityCountry that are not empty
NonEmptySegments(text) ==
    SelectSeq([i \in DOMAIN SplitComma(text) |-> Trim(SplitComma(text)[i])],
              LAMBDA seg : seg # <<>>)

\* the countries of the collection: the last non-empty trimmed segment of
\* every cityCountry that contains a comma
LastNonEmptySegments ==
    {NonEmptySegments(Obj(universities[i]).cityCountry)
        [Len(NonEmptySegments(Obj(universities[i]).cityCountry))] :
        i \in {j \in DOMAIN universities :
                 /\ Len(SplitComma(Obj(universities[j]).cityCountry)) > 1
                 /\ NonEmptySegments(Obj(universities[j]).cityCountry) # <<>>}}

\* C20: extractCountries returns, without duplicates and in lexicographic
\* order, the last non-empty trimmed segment of every cityCountry that
\* contains a comma (a trailing comma does not suppress the country before
\* it); a record without a comma contributes nothing.
C20_CountriesAreLastNonEmptySegments ==
    Returned("extractCountries") =>
        /\ {returned[1][k] : k \in DOMAIN returned[1]} = LastNonEmptySegments
        /\ \A k \in 1..(Len(returned[1]) - 1) :
              StringLess(returned[1][k], returned[1][k + 1])

(* highlightText *)

\* the longest text and the longest search term of the highlightText calls
MaxText == 4

MaxTerm == 2

TextAlphabet == {"a", "A", "."}

\* searchTerm.replace(/[.*+?^${}()|[\]\\]/g, '\\$&') left out: the term is
\* the pattern as it is
EscapeRegExpNone(term) == term

\* searchTerm.replace(/[.*+?^${}()|[\]\\]/g, '\\$&'): a backslash in front
\* of every character of the class (of the alphabet, the dot)
RECURSIVE EscapeRegExp(_)
EscapeRegExp(term) ==
    IF term = <<>> THEN <<>>
    ELSE (IF Head(term) = "." THEN <<"\\", ".">> ELSE <<Head(term)>>)
         \o EscapeRegExp(Tail(term))

\* the atoms of the pattern source inside the capture group: an escaped
\* character is that character, a bare dot is any character
RECURSIVE CompilePattern(_)
CompilePattern(source) ==
    IF source = <<>> THEN <<>>
    ELSE IF Head(source) = "\\"
    THEN <<[any |-> FALSE, char |-> source[2]]>> \o CompilePattern(Tail(Tail(source)))
    ELSE IF Head(source) = "."
    THEN <<[any |-> TRUE, char |-> "."]>> \o CompilePattern(Tail(source))
    ELSE <<[any |-> FALSE, char |-> Head(source)]>> \o CompilePattern(Tail(source))

\* new RegExp(`(${...})`, 'gi')
HighlightRegExp(term) == CompilePattern(EscapeRegExp(term))

\* the pattern matches the text at index q (0-based), ignoring case
MatchesAt(text, regex, q) ==
    /\ q + Len(regex) <= Len(text)
    /\ \A k \in DOMAIN regex :
          \/ regex[k].any
          \/ ToLowerChar(text[q + k]) = ToLowerChar(regex[k].char)

\* text.split(regex) from search index q, p being the end of the last match:
\* the text between the matches and, for the capture group, the matches
RECURSIVE SplitFrom(_, _, _, _)
SplitFrom(text, regex, p, q) ==
    IF q + Len(regex) > Len(text) THEN <<SubSeq(text, p + 1, Len(text))>>
    ELSE IF MatchesAt(text, regex, q)
    THEN <<SubSeq(text, p + 1, q), SubSeq(text, q + 1, q + Len(regex))>>
         \o SplitFrom(text, regex, q + Len(regex), q + Len(regex))
    ELSE SplitFrom(text, regex, p, q + 1)

\* regex.test(part) of the global pattern whose lastIndex is li: the search
\* starts at li, a match leaves lastIndex at its end, a failure at 0
RegexTest(part, regex, li) ==
    LET found == {i \in li..Len(part) : MatchesAt(part, regex, i)}
    IN  IF found = {} THEN [matched |-> FALSE, lastIndex |-> 0]
        ELSE [matched |-> TRUE, lastIndex |-> Min(found) + Len(regex)]

\* parts.map(part => regex.test(part) ? <span>{part}</span> : part)
RECURSIVE MapParts(_, _, _)
MapParts(parts, regex, li) ==
    IF parts = <<>> THEN <<>>
    ELSE LET test == RegexTest(Head(parts), regex, li)
         IN  <<[text |-> Head(parts), marked |-> test.matched]>>
             \o MapParts(Tail(parts), regex, test.lastIndex)

\* highlightText
highlightText(text, term) ==
    IF term = <<>> \/ text = <<>> THEN <<[text |-> text, marked |-> FALSE]>>
    ELSE MapParts(SplitFrom(text, HighlightRegExp(term), 0, 0), HighlightRegExp(term), 0)

HighlightCalls ==
    {<<"highlightText", text, term>> :
        text \in SeqsUpTo(TextAlphabet, MaxText), term \in SeqsUpTo(TextAlphabet, MaxTerm)}

HighlightCall ==
    /\ Pending("highlightText")
    /\ returned' = <<highlightText(args[2], args[3])>>
    /\ UNCHANGED <<parseVars, uiVars, args>>

RECURSIVE ConcatTexts(_)
ConcatTexts(segments) ==
    IF segments = <<>> THEN <<>>
    ELSE Head(segments).text \o ConcatTexts(Tail(segments))

\* C16: the segments of highlightText concatenate in order to the original
\* text; a segment is marked iff it is an occurrence of the term, compared
\* ignoring case and character by character (no character of the term is a
\* pattern), and no occurrence is left inside an unmarked segment; with an
\* empty term or an empty text the text comes back as one unmarked piece.
C16_HighlightMarksOccurrences ==
    Returned("highlightText") =>
        LET text == args[2]
            term == args[3]
            segments == returned[1]
        IN  /\ ConcatTexts(segments) = text
            /\ \A k \in DOMAIN segments :
                  /\ segments[k].marked <=>
                        (term # <<>> /\ ToLowerCase(segments[k].text) = ToLowerCase(term))
                  /\ (~segments[k].marked /\ term # <<>>) =>
                        ~Includes(ToLowerCase(segments[k].text), ToLowerCase(term))
            /\ (term = <<>> \/ text = <<>>) =>
                  segments = <<[text |-> text, marked |-> FALSE]>>

\* a term with a dot and a capital found twice in a text that has other
\* characters
C16_Witness ==
    /\ Returned("highlightText")
    /\ args[3] = <<"A", ".">>
    /\ args[2] = <<"a", ".", "a", ".">>
    /\ Len(returned[1]) = 5

(* pagination *)

\* the longest list of the pagination calls
MaxTotal == 51

PaginateCalls ==
    {<<"paginate", total, page>> : total \in 0..MaxTotal, page \in 1..3}

\* the sorted list of a pagination call: the positions themselves
Positions(total) == [i \in 1..total |-> i]

PaginateCall ==
    /\ Pending("paginate")
    /\ returned' = <<paginatedUniversities(Positions(args[2]), args[3]),
                     totalPages(Positions(args[2]))>>
    /\ UNCHANGED <<parseVars, uiVars, args>>

\* C17: for every page p in 1..totalPages the displayed page is exactly the
\* records at positions (p-1)*pageSize+1 .. min(p*pageSize, total), in
\* sorted order; a list of 30 has 2 pages and page 2 holds records 26 to 30.
C17_PageHoldsItsPositions ==
    Returned("paginate") =>
        LET total == args[2]
            p == args[3]
            last == IF p * 25 < total THEN p * 25 ELSE total
        IN  /\ p \in 1..returned[2] =>
                  /\ Len(returned[1]) = last - (p - 1) * 25
                  /\ \A k \in DOMAIN returned[1] : returned[1][k] = (p - 1) * 25 + k
            /\ (total = 30 /\ p = 2) =>
                  /\ returned[1] = <<26, 27, 28, 29, 30>>
                  /\ returned[2] = 2

C17_Witness ==
    /\ Returned("paginate")
    /\ args[2] = 30
    /\ args[3] = 2
    /\ Len(returned[1]) = 5

\* C18: totalPages is ceil(total / pageSize) and is at least 1 for every
\* list, the empty list included.
C18_TotalPagesAtLeastOne ==
    Returned("paginate") =>
        /\ returned[2] * 25 >= args[2]
        /\ (returned[2] - 1) * 25 < args[2] \/ returned[2] = 1
        /\ returned[2] >= 1

(* the specification *)

InitCalls ==
    /\ rawData = <<>>
    /\ lastIndex = 0
    /\ results = <<>>
    /\ objects \in Collections
    /\ universities = Refs(objects)
    /\ searchTerm = <<>>
    /\ debouncedSearchTerm = <<>>
    /\ timers = {}
    /\ handler = 0
    /\ selectedCountry = <<>>
    /\ rankingRange = <<1, 100>>
    /\ acceptanceRateRange = <<0, 100>>
    /\ showAdvancedFilters = FALSE
    /\ filteredUniversities = <<>>
    /\ finderSearchTerm = <<>>
    /\ activeTab = "table"
    /\ sortConfig = [column |-> "rank", direction |-> "asc"]
    /\ currentPage = 1
    /\ InitialTable
    /\ interacted = FALSE
    /\ superseded = FALSE
    /\ returned = <<>>
    /\ \/ args \in SortCalls \cup {<<"extractCountries">>}
       \/ /\ objects = <<>>
          /\ args \in FormatDateCalls \cup HighlightCalls \cup PaginateCalls

NextCalls ==
    \/ FormatDateCall
    \/ SortCall
    \/ ExtractCountriesCall
    \/ HighlightCall
    \/ PaginateCall

SpecCalls == InitCalls /\ [][NextCalls]_vars

---------------------------------------------------------------------------
(* Claims on the sort of the contact column (SpecCalls). *)

\* the lower-cased contact string of a record
ContactString(ref) == ToLowerCase(Obj(ref).contact.email)

\* C21: sorting by the contact column ascending orders the records by
\* non-decreasing lower-cased contact string, and descending by
\* non-increasing contact string.
C21_ContactColumnSorts ==
    (Returned("sort") /\ args[2] = "contact") =>
        \A k \in DOMAIN returned :
            \A i \in 1..(Len(returned[k]) - 1) :
                IF Directions[k] = "asc"
                THEN ~StringLess(ContactString(returned[k][i + 1]),
                                 ContactString(returned[k][i]))
                ELSE ~StringLess(ContactString(returned[k][i]),
                                 ContactString(returned[k][i + 1]))

---------------------------------------------------------------------------
(* SpecText: the text helpers of the parser, extractLinks and              *)
(* parseDeadline, called on their own.                                      *)

\* the most fragments a text of the calls is put together from
MaxPieces == 2

IsSpace(c) == c = " "

\* last position of the longest run of white space that starts at i (i-1:
\* no run)
SpaceRunEnd(s, i) ==
    CHOOSE j \in (i - 1)..Len(s) :
        /\ \A k \in i..j : IsSpace(s[k])
        /\ (j = Len(s) \/ ~IsSpace(s[j + 1]))

\* last position of the longest run of [^\s] that starts at i
NonSpaceRunEnd(s, i) ==
    CHOOSE j \in (i - 1)..Len(s) :
        /\ \A k \in i..j : ~IsSpace(s[k])
        /\ (j = Len(s) \/ IsSpace(s[j + 1]))

\* last position of the longest run of \w that starts at i
WordRunEnd(s, i) ==
    CHOOSE j \in (i - 1)..Len(s) :
        /\ \A k \in i..j : IsWordChar(s[k])
        /\ (j = Len(s) \/ ~IsWordChar(s[j + 1]))

\* the characters at positions i..j of s exist and are digits
DigitsAt(s, i, j) ==
    /\ j <= Len(s)
    /\ \A k \in i..j : s[k] \in DigitSet

\* s has the text t at position i
StartsWithAt(s, t, i) ==
    /\ i + Len(t) - 1 <= Len(s)
    /\ SubSeq(s, i, i + Len(t) - 1) = t

sHttp == <<"h","t","t","p",":","/","/">>

sHttps == <<"h","t","t","p","s",":","/","/">>

\* URL_REGEX = /https?:\/\/[^\s]+/g: last position of the match that starts
\* at position i, 0 when none starts there
UrlMatchEnd(s, i) ==
    LET n == IF StartsWithAt(s, sHttp, i) THEN Len(sHttp)
             ELSE IF StartsWithAt(s, sHttps, i) THEN Len(sHttps)
             ELSE 0
    IN  IF n = 0 \/ NonSpaceRunEnd(s, i + n) < i + n THEN 0
        ELSE NonSpaceRunEnd(s, i + n)

\* text.match(URL_REGEX) and text.replace(URL_REGEX, '') from position i:
\* the matches from left to right and the text between them
RECURSIVE ScanUrls(_, _)
ScanUrls(s, i) ==
    IF i > Len(s) THEN [links |-> <<>>, rest |-> <<>>]
    ELSE IF UrlMatchEnd(s, i) # 0
    THEN LET after == ScanUrls(s, UrlMatchEnd(s, i) + 1)
         IN  [links |-> <<SubSeq(s, i, UrlMatchEnd(s, i))>> \o after.links,
              rest |-> after.rest]
    ELSE LET after == ScanUrls(s, i + 1)
         IN  [links |-> after.links, rest |-> <<s[i]>> \o after.rest]

HexSet == DigitSet \cup {"a","b","c","d","e","f","A","B","C","D","E","F"}

\* the character of an escape %XX below 0x80, for the escapes of the inputs
EscapedChar ==
    <<"2", "0">> :> " " @@ <<"2", "C">> :> "," @@ <<"4", "1">> :> "A"

\* decodeURIComponent: a "%" that two hex digits do not follow, and a byte
\* of 0x80 or more that is no UTF-8 sequence, throw URIError
RECURSIVE decodeURIComponent(_)
decodeURIComponent(s) ==
    IF s = <<>> THEN [thrown |-> FALSE, value |-> <<>>]
    ELSE IF Head(s) # "%"
    THEN LET after == decodeURIComponent(Tail(s))
         IN  [thrown |-> after.thrown, value |-> <<Head(s)>> \o after.value]
    ELSE IF Len(s) < 3 \/ s[2] \notin HexSet \/ s[3] \notin HexSet
              \/ <<s[2], s[3]>> \notin DOMAIN EscapedChar
    THEN [thrown |-> TRUE, value |-> <<>>]
    ELSE LET after == decodeURIComponent(SubSeq(s, 4, Len(s)))
         IN  [thrown |-> after.thrown,
              value |-> <<EscapedChar[<<s[2], s[3]>>]>> \o after.value]

\* links.map(link => decodeURIComponent(link)): the first throw ends the map
RECURSIVE DecodeLinks(_)
DecodeLinks(links) ==
    IF links = <<>> THEN [thrown |-> FALSE, value |-> <<>>]
    ELSE LET first == decodeURIComponent(Head(links))
             after == DecodeLinks(Tail(links))
         IN  IF first.thrown \/ after.thrown THEN [thrown |-> TRUE, value |-> <<>>]
             ELSE [thrown |-> FALSE, value |-> <<first.value>> \o after.value]

\* extractLinks; raised: an exception left the function
extractLinks(text) ==
    IF text = <<>>
    THEN [raised |-> FALSE, text |-> <<>>, links |-> <<>>]
    ELSE LET scan == ScanUrls(text, 1)
             decoded == DecodeLinks(scan.links)
         IN  IF decoded.thrown THEN [raised |-> TRUE, text |-> <<>>, links |-> <<>>]
             ELSE [raised |-> FALSE, text |-> Trim(scan.rest), links |-> decoded.value]

\* /(\d{4}-\d{2}-\d{2})/: last position of the match that starts at i, 0
\* when none starts there
IsoMatchEnd(s, i) ==
    IF /\ DigitsAt(s, i, i + 3)
       /\ i + 9 <= Len(s)
       /\ s[i + 4] = "-"
       /\ DigitsAt(s, i + 5, i + 6)
       /\ s[i + 7] = "-"
       /\ DigitsAt(s, i + 8, i + 9)
    THEN i + 9 ELSE 0

MonthAbbreviations == {ToLowerCase(SubSeq(MonthNames[m], 1, 3)) : m \in 1..12}

\* /(Jan|Feb|...|Dec)\s+\d{4}/i
MonYearMatchEnd(s, i) ==
    IF /\ i + 2 <= Len(s)
       /\ ToLowerCase(SubSeq(s, i, i + 2)) \in MonthAbbreviations
       /\ SpaceRunEnd(s, i + 3) >= i + 3
       /\ DigitsAt(s, SpaceRunEnd(s, i + 3) + 1, SpaceRunEnd(s, i + 3) + 4)
    THEN SpaceRunEnd(s, i + 3) + 4 ELSE 0

\* ,?\s+\d{4} behind the day whose last digit is at position p
YearBehindDay(s, p) ==
    LET c == IF p + 1 <= Len(s) /\ s[p + 1] = "," THEN p + 1 ELSE p
    IN  IF SpaceRunEnd(s, c + 1) >= c + 1
           /\ DigitsAt(s, SpaceRunEnd(s, c + 1) + 1, SpaceRunEnd(s, c + 1) + 4)
        THEN SpaceRunEnd(s, c + 1) + 4 ELSE 0

\* /(\w+\s+\d{1,2},?\s+\d{4})/: the word is the run up to the white space,
\* the day takes two digits before it tries one
LongDateMatchEnd(s, i) ==
    LET r == WordRunEnd(s, i)
        w == SpaceRunEnd(s, r + 1)
    IN  IF r < i \/ w < r + 1 THEN 0
        ELSE IF DigitsAt(s, w + 1, w + 2) /\ YearBehindDay(s, w + 2) # 0
        THEN YearBehindDay(s, w + 2)
        ELSE IF DigitsAt(s, w + 1, w + 1) THEN YearBehindDay(s, w + 1)
        ELSE 0

\* datePatterns: the match end of the k-th pattern
PatternMatchEnd(k, s, i) ==
    CASE k = 1 -> IsoMatchEnd(s, i)
      [] k = 2 -> MonYearMatchEnd(s, i)
      [] OTHER -> LongDateMatchEnd(s, i)

\* cleanText.match(pattern): position of the leftmost match, 0 when none
MatchStart(k, s) ==
    LET starts == {i \in DOMAIN s : PatternMatchEnd(k, s, i) # 0}
    IN  IF starts = {} THEN 0 ELSE Min(starts)

\* match[1] with the group of the second pattern around the whole pattern
GroupOneWholeMatch(k, s) ==
    SubSeq(s, MatchStart(k, s), PatternMatchEnd(k, s, MatchStart(k, s)))

\* match[1]: the first and third pattern have their group around the whole
\* pattern, the second around the month alternatives only
GroupOne(k, s) ==
    IF k = 2 THEN SubSeq(s, MatchStart(k, s), MatchStart(k, s) + 2)
    ELSE SubSeq(s, MatchStart(k, s), PatternMatchEnd(k, s, MatchStart(k, s)))

\* cleanText.replace(pattern, ''): the leftmost match removed
RemoveMatch(k, s) ==
    SubSeq(s, 1, MatchStart(k, s) - 1)
        \o SubSeq(s, PatternMatchEnd(k, s, MatchStart(k, s)) + 1, Len(s))

\* the first pattern of datePatterns that matches, 0 when none does
FirstPattern(s) ==
    IF \E k \in 1..3 : MatchStart(k, s) # 0
    THEN Min({k \in 1..3 : MatchStart(k, s) # 0}) ELSE 0

\* parseDeadline
parseDeadline(text) ==
    IF text = <<>>
    THEN [raised |-> FALSE, date |-> <<>>, notes |-> <<>>, links |-> <<>>]
    ELSE LET ex == extractLinks(text)
             k == FirstPattern(ex.text)
         IN  IF ex.raised
             THEN [raised |-> TRUE, date |-> <<>>, notes |-> <<>>, links |-> <<>>]
             ELSE IF k = 0
             THEN [raised |-> FALSE, date |-> <<>>, notes |-> ex.text, links |-> ex.links]
             ELSE [raised |-> FALSE, date |-> GroupOne(k, ex.text),
                   notes |-> Trim(RemoveMatch(k, ex.text)), links |-> ex.links]

sIso == <<"2","0","2","5","-","0","1","-","1","5">>

sMonYear == <<"J","a","n"," ","2","0","2","5">>

sMonYearMixed == <<"j","A","N"," "," ","2","0","2","6">>

sLong == <<"J","a","n","u","a","r","y"," ","5",","," ","2","0","2","5">>

sBy == <<"b","y"," ">>

sRollingAfter == <<" ","r","o","l","l","i","n","g">>

sUrl == <<"h","t","t","p",":","/","/","x","/","a"," ">>

sUrlEscaped == <<"h","t","t","p",":","/","/","x","/","a","%","2","0","b">>

sUrlPercent == <<"h","t","t","p","s",":","/","/","x","/","%">>

sSee == <<"s","e","e"," ">>

\* fragments of deadline texts
DeadlinePieces == {sIso, sMonYear, sMonYearMixed, sLong, sBy, sRollingAfter, sUrl}

\* fragments of texts with links
LinkPieces == {sUrl, sUrlEscaped, sUrlPercent, sSee, sRollingAfter, <<" ">>, <<"%">>}

RECURSIVE Texts(_, _)
Texts(pieces, n) ==
    IF n = 0 THEN {<<>>}
    ELSE Texts(pieces, n - 1) \cup {t \o p : t \in Texts(pieces, n - 1), p \in pieces}

\* a call without its argument passes undefined
TextCalls ==
    {<<"parseDeadline", t>> : t \in Texts(DeadlinePieces, MaxPieces)}
    \cup {<<"extractLinks", t>> : t \in Texts(LinkPieces, MaxPieces)}
    \cup {<<"parseDeadline">>, <<"extractLinks">>}

\* the text argument of the call in args; undefined is, like '', falsy, and
\* !text is the only thing the functions do with it
TextArg == IF Len(args) < 2 THEN <<>> ELSE args[2]

InitText ==
    /\ rawData = <<>>
    /\ lastIndex = 0
    /\ results = <<>>
    /\ NoClient
    /\ returned = <<>>
    /\ args \in TextCalls

ParseDeadlineCall ==
    /\ Pending("parseDeadline")
    /\ returned' = <<parseDeadline(TextArg)>>
    /\ UNCHANGED <<parseVars, uiVars, args>>

ExtractLinksCall ==
    /\ Pending("extractLinks")
    /\ returned' = <<extractLinks(TextArg)>>
    /\ UNCHANGED <<parseVars, uiVars, args>>

NextText ==
    \/ ParseDeadlineCall
    \/ ExtractLinksCall

SpecText == InitText /\ [][NextText]_vars

\* the text a deadline is searched in: the deadline text without its links
DeadlineText == extractLinks(TextArg).text

\* C22: parseDeadline tries the ISO shape, then abbreviated month plus year,
\* then "Month DD, YYYY"; the date is the complete text of the first pattern
\* that matches ("Jan 2025" for "Jan 2025"), the notes are the text with
\* exactly that match removed, and the date is empty when none matches.
C22_DateIsWholeFirstMatch ==
    (Returned("parseDeadline") /\ ~returned[1].raised) =>
        LET k == FirstPattern(DeadlineText)
        IN  /\ k = 0 => returned[1].date = <<>>
            /\ k # 0 =>
                  /\ returned[1].date = GroupOneWholeMatch(k, DeadlineText)
                  /\ returned[1].notes = Trim(RemoveMatch(k, DeadlineText))
            /\ TextArg = sMonYear => returned[1].date = sMonYear

\* C23: extractLinks is total: no input, a URL with a malformed
\* percent-escape included, makes it raise; an empty or undefined input
\* yields the text '' and no links.
C23_ExtractLinksTotal ==
    Returned("extractLinks") =>
        /\ ~returned[1].raised
        /\ TextArg = <<>> =>
              /\ returned[1].text = <<>>
              /\ returned[1].links = <<>>

---------------------------------------------------------------------------
(* Claims on the term handed to the table (Spec). *)

\* the record satisfies the criteria with the term handed to the table as
\* the search term
SatisfiesWithHighlightTerm(ref) ==
    LET uni == Obj(ref)
    IN  /\ finderSearchTerm # <<>> =>
              \E text \in SearchedTexts(uni) :
                  ContainsIgnoreCase(text, finderSearchTerm)
        /\ selectedCountry # <<>> => Includes(uni.cityCountry, selectedCountry)
        /\ uni.rank.kind = "num"
        /\ rankingRange[1] <= uni.rank.n
        /\ uni.rank.n <= rankingRange[2]
        /\ showAdvancedFilters =>
              /\ uni.acceptanceRate.value.kind = "num"
              /\ acceptanceRateRange[1] <= uni.acceptanceRate.value.n
              /\ uni.acceptanceRate.value.n <= acceptanceRateRange[2]

\* C24: in every state the search term handed to the table for highlighting
\* is the term the displayed filtered list was computed with, however
\* keystrokes, timer firings and other criteria changes interleave.
C24_HighlightTermIsFilterTerm ==
    filteredUniversities = SelectSeq(universities, SatisfiesWithHighlightTerm)

\* the list was recomputed for a country while the input, already cleared,
\* still waits for its timer
C24_Witness ==
    /\ finderSearchTerm = sTermMit
    /\ searchTerm = <<>>
    /\ timers # {}
    /\ selectedCountry # <<>>
    /\ Len(filteredUniversities) < Len(SelectSeq(universities,
                                        LAMBDA ref : Includes(Obj(ref).cityCountry,
                                                              selectedCountry)))

---------------------------------------------------------------------------
(* SpecClear: the filter controls with Clear All, under fair timers. *)

NextClear ==
    \/ TypeSearch
    \/ SelectCountry
    \/ DragRanking
    \/ ToggleAdvanced
    \/ ClearFilters
    \/ Tick
    \/ TimerFires

SpecClear == Init /\ [][NextClear]_vars /\ WF_vars(Tick) /\ WF_vars(TimerFires)

\* the criteria of SearchFilters are the cleared ones: no text in the input,
\* no country, both ranges the whole span of the dataset, basic mode
ClearedCriteria ==
    /\ searchTerm = <<>>
    /\ selectedCountry = <<>>
    /\ rankingRange = <<minRank(universities), maxRank(universities)>>
    /\ acceptanceRateRange = <<minAcceptanceRate(universities),
                               maxAcceptanceRate(universities)>>
    /\ ~showAdvancedFilters

\* the whole collection is displayed and no chip is active
AllDisplayedNoChip ==
    /\ filteredUniversities = universities
    /\ filterChips = {}

\* C25: Clear All, pressed in any reachable filter state, leaves the cleared
\* criteria; and while the criteria stay cleared (no further input), the
\* debounce window elapses and the displayed list becomes the full
\* collection with no filter chip active.
C25_ClearAllRestoresEverything ==
    /\ [][ClearFilters => ClearedCriteria']_vars
    /\ ClearedCriteria ~> (AllDisplayedNoChip \/ ~ClearedCriteria)

\* just after Clear All: the input is empty, its timer is pending, and the
\* list is still the one of the old search term
C25_Witness ==
    /\ ClearedCriteria
    /\ debouncedSearchTerm # <<>>
    /\ timers # {}
    /\ "search" \in filterChips
    /\ Len(filteredUniversities) < Len(universities)

---------------------------------------------------------------------------
(* SpecRanges: the two range criteria, on the small dataset and on the     *)
(* empty one (the data file could not be loaded).                           *)

InitRanges ==
    \/ ClientInit(LoadedSmall)
    \/ ClientInit(<<>>)

Abs(n) == IF n < 0 THEN 0 - n ELSE n

\* a click on the track of the ranking slider at value (handleTrackClick):
\* the nearer thumb moves
TrackClickRanking ==
    \E value \in RankStops(universities) :
        /\ universities # <<>>
        /\ interacted' = TRUE
        /\ Rerender(searchTerm, debouncedSearchTerm, timers, selectedCountry,
                    IF Abs(value - rankingRange[1]) < Abs(value - rankingRange[2])
                    THEN <<Min({value, rankingRange[2]}), rankingRange[2]>>
                    ELSE <<rankingRange[1], Max({value, rankingRange[1]})>>,
                    acceptanceRateRange, showAdvancedFilters, TRUE)

\* a thumb dragged on a slider that has a dataset behind it (on the empty
\* dataset min and max of the slider are Infinity and -Infinity, and no
\* position of the pointer is a number)
DragRankingOnData ==
    /\ universities # <<>>
    /\ DragRanking

NextRanges ==
    \/ DragRankingOnData
    \/ TrackClickRanking
    \/ ToggleAdvanced
    \/ QuickFilter
    \/ RemoveChip
    \/ ClearFilters
    \/ TypeSearch
    \/ Tick
    \/ TimerFires

SpecRanges == InitRanges /\ [][NextRanges]_vars

\* C26: after any sequence of slider drags, track clicks, quick-filter
\* presets, chip removals and Clear All, on any dataset including the empty
\* one, the rank range and the acceptance-rate range of the criteria have
\* lower bound <= upper bound.
C26_RangesOrdered ==
    /\ rankingRange[1] <= rankingRange[2]
    /\ acceptanceRateRange[1] <= acceptanceRateRange[2]

---------------------------------------------------------------------------
(* Claims on the state of the table across criteria changes and tab        *)
(* switches (Spec).                                                         *)

\* C27: the sort column and direction are preserved across filter changes
\* and tab switches: the sort configuration of the table only changes by a
\* click on a header, so it is always the one last chosen by a header click.
C27_SortConfigOnlyChangedByHeader ==
    [][sortConfig' # sortConfig => ClickHeader]_vars

\* a step changes a criterion of the filter
CriteriaChanged ==
    \/ debouncedSearchTerm' # debouncedSearchTerm
    \/ selectedCountry' # selectedCountry
    \/ rankingRange' # rankingRange
    \/ acceptanceRateRange' # acceptanceRateRange
    \/ showAdvancedFilters' # showAdvancedFilters

\* C28: whenever a criteria change delivers a new filtered list to a
\* displayed table, the current page is 1 when the step is over (before the
\* next user action), whatever page was shown before.
C28_CriteriaChangeResetsPage ==
    [][(CriteriaChanged /\ TableShown(activeTab', filteredUniversities'))
          => currentPage' = 1]_vars

\* a filtered list of more than one page on its first page, under changed
\* criteria
C28_Witness ==
    /\ TableShown(activeTab, filteredUniversities)
    /\ rankingRange # InitialRankingRange
    /\ Len(filteredUniversities) > Len(FilterEffect(universities, <<>>, <<>>,
                                                   InitialRankingRange,
                                                   InitialAcceptanceRateRange, FALSE))
    /\ totalPages(filteredUniversities) > 1
    /\ currentPage = 1
    /\ sortConfig.direction = "desc"

---------------------------------------------------------------------------
(* SpecButtons: the page-number buttons of the pagination bar, computed    *)
(* for a number of pages and a current page.                                *)

\* the most pages of a call
MaxPages == 12

\* the page numbers without the branch for the last pages
PageButtonListNoEndBranch(total, page) ==
    [k \in 1..Min({total, 7}) |->
        IF total <= 7 THEN k
        ELSE IF page <= 4 THEN k
        ELSE page - 3 + (k - 1)]

\* Array.from({length: Math.min(totalPages, 7)}, (_, i) => pageNum): the
\* page numbers of the buttons from left to right
PageButtonList(total, page) ==
    [k \in 1..Min({total, 7}) |->
        IF total <= 7 THEN (k - 1) + 1
        ELSE IF page <= 4 THEN (k - 1) + 1
        ELSE IF page >= total - 3 THEN total - 6 + (k - 1)
        ELSE page - 3 + (k - 1)]

InitButtons ==
    /\ rawData = <<>>
    /\ lastIndex = 0
    /\ results = <<>>
    /\ NoClient
    /\ returned = <<>>
    /\ \E total \in 2..MaxPages, page \in 1..MaxPages :
          /\ page <= total
          /\ args = <<"pageButtons", total, page>>

PageButtonsCall ==
    /\ Pending("pageButtons")
    /\ returned' = <<PageButtonList(args[2], args[3])>>
    /\ UNCHANGED <<parseVars, uiVars, args>>

NextButtons == PageButtonsCall

SpecButtons == InitButtons /\ [][NextButtons]_vars

\* C29: for every totalPages > 1 and every currentPage in 1..totalPages the
\* page-number buttons are min(totalPages, 7) pairwise distinct consecutive
\* page numbers, all within 1..totalPages, and the current page is one of
\* them.
C29_PageButtonsWindow ==
    Returned("pageButtons") =>
        LET total == args[2]
            page == args[3]
            buttons == returned[1]
        IN  /\ Len(buttons) = (IF total < 7 THEN total ELSE 7)
            /\ \A k \in 1..(Len(buttons) - 1) : buttons[k + 1] = buttons[k] + 1
            /\ \A k \in DOMAIN buttons : buttons[k] \in 1..total
            /\ \E k \in DOMAIN buttons : buttons[k] = page

\* the last page of more than seven: the window is shifted to the end
C29_Witness ==
    /\ Returned("pageButtons")
    /\ args[2] = 10
    /\ args[3] = 10
    /\ returned[1][7] = 10

---------------------------------------------------------------------------
(* SpecFocus: the focused cell of DataTable under cell clicks, the keys of *)
(* handleKeyDown, page changes, a filter change, the Compact button and    *)
(* the Columns button, over the dataset of several pages.                  *)

\* displayColumns: the keys of COLUMN_CONFIG that are visible, in compact
\* view only those of priority 1 and 2
displayColumns(visible, compact) ==
    LET Displayed(key) ==
            /\ compact => ColumnPriority[key] <= 2
            /\ key \in visible
    IN  SelectSeq(ColumnKeys, Displayed)

\* the columns the Columns button leaves once every column is visible
EssentialColumns == {"rank", "universityName", "cityCountry", "appDeadline", "acceptanceRate"}

\* the rows of the rendered page
PageRows == paginatedUniversities(sortedUniversities(filteredUniversities, sortConfig),
                                  currentPage)

\* what a click or key inside the table body and its toolbar leaves alone
TableFrame ==
    /\ UNCHANGED <<filteredUniversities, activeTab, sortConfig, currentPage>>
    /\ FiltersFrame

\* onClick of a cell: setFocusedCell({row: rowIndex, col: colIndex}); the
\* corner cells of the rendered page stand for the cells
ClickCell ==
    /\ TableShown(activeTab, filteredUniversities)
    /\ \E rowIndex \in {0, Len(PageRows) - 1},
          colIndex \in {0, Len(displayColumns(visibleColumns, isCompactView)) - 1} :
           /\ colIndex >= 0
           /\ focusedCell' = <<rowIndex, colIndex>>
    /\ UNCHANGED <<visibleColumns, isCompactView>>
    /\ TableFrame

Keys == {"ArrowUp", "ArrowDown", "ArrowLeft", "ArrowRight", "Home", "End"}

\* handleKeyDown: nothing without a focused cell; otherwise the cell moves
\* within 0..maxRow and 0..maxCol
handleKeyDown(cell, key, rows) ==
    IF cell = <<>> THEN cell
    ELSE LET row == cell[1]
             col == cell[2]
             maxRow == Len(rows) - 1
             maxCol == Len(ColumnKeys) - 1
         IN  CASE key = "ArrowUp" -> IF row > 0 THEN <<row - 1, col>> ELSE cell
               [] key = "ArrowDown" -> IF row < maxRow THEN <<row + 1, col>> ELSE cell
               [] key = "ArrowLeft" -> IF col > 0 THEN <<row, col - 1>> ELSE cell
               [] key = "ArrowRight" -> IF col < maxCol THEN <<row, col + 1>> ELSE cell
               [] key = "Home" -> <<0, 0>>
               [] key = "End" -> <<maxRow, maxCol>>

\* onKeyDown of the table
KeyDown ==
    /\ TableShown(activeTab, filteredUniversities)
    /\ LET rows == PageRows
       IN  \E key \in Keys : focusedCell' = handleKeyDown(focusedCell, key, rows)
    /\ UNCHANGED <<visibleColumns, isCompactView>>
    /\ TableFrame

\* the Compact/Full button: setIsCompactView(!isCompactView)
ToggleCompactView ==
    /\ TableShown(activeTab, filteredUniversities)
    /\ isCompactView' = ~isCompactView
    /\ UNCHANGED <<focusedCell, visibleColumns>>
    /\ TableFrame

\* the Columns button: every column when some are hidden, else the
\* essential ones
ToggleColumns ==
    /\ TableShown(activeTab, filteredUniversities)
    /\ visibleColumns' = IF AllColumns \ visibleColumns # {}
                         THEN AllColumns ELSE EssentialColumns
    /\ UNCHANGED <<focusedCell, isCompactView>>
    /\ TableFrame

NextFocus ==
    \/ ClickCell
    \/ KeyDown
    \/ ToggleCompactView
    \/ ToggleColumns
    \/ SelectCountry
    \/ PageButton
    \/ PreviousPage
    \/ NextPage

SpecFocus == InitPages /\ [][NextFocus]_vars

\* C30: after cell clicks, arrow/Home/End keys, page changes, filter
\* changes, compact-view toggles and column-visibility toggles the focused
\* cell, when set, designates a row of the displayed page and a column among
\* the displayed columns.
C30_FocusedCellDisplayed ==
    (TableShown(activeTab, filteredUniversities) /\ focusedCell # <<>>) =>
        /\ focusedCell[1] \in 0..(Len(PageRows) - 1)
        /\ focusedCell[2] \in 0..(Len(displayColumns(visibleColumns, isCompactView)) - 1)

=============================================================================
